---- MODULE Spec2Model ----
(***************************************************************************)
(* A model of the political-figure data processing pipeline               *)
(* (lzy234/DataProcessing): ID assignment and relationship mapping         *)
(* (relationship_mapper.py), organization deduplication                    *)
(* (organization_deduplicator.py), the enrichment engine (ai_enhancer.py)  *)
(* and the phases of main.py that drive them.                              *)
(*                                                                         *)
(* The module holds several specifications over one set of variables.     *)
(* Each specification starts the component it is about in the state its   *)
(* constructor leaves and keeps the variables of the other components at  *)
(* their idle values.                                                      *)
(***************************************************************************)
EXTENDS Integers, Sequences, FiniteSets, TLC

VARIABLES
    \* ---- ID assignment loop (relationship_mapper.py, _assign_*_ids)
    idKind,      \* which entity type the loop numbers: "people", ...
    idIdx,       \* the index enumerate(..., 1) hands out next
    idList,      \* the IDs given so far, in assignment order
    idPc         \* "loop" while the for loop runs, "done" after it

idVars == <<idKind, idIdx, idList, idPc>>

VARIABLES
    \* ---- RelationshipMapper (relationship_mapper.py)
    mPc,              \* position in assign_all_ids / map_relationships / validate_references
    inPeople,         \* argument people: list of person dicts
    inOrgs,           \* argument organizations: dict name -> org data
    inParties,        \* argument parties: the keys of the party dict
    inSectors,        \* argument sectors: the keys of the sector dict
    organization_ids, \* self.organization_ids: name -> id
    party_ids,        \* self.party_ids
    sector_ids,       \* self.sector_ids
    id_to_organization, \* self.id_to_organization: id -> name
    id_to_party,      \* self.id_to_party
    id_to_sector,     \* self.id_to_sector
    people,           \* entities['people']
    organizations,    \* entities['organizations']
    parties,          \* entities['parties']
    sectors,          \* entities['sectors']
    errors,           \* the error list validate_references builds
    vOrg,             \* _detect_circular_references: index of the org whose chain is walked
    vCurrent,         \* its local variable current
    vVisited,         \* its local variable visited
    vIter             \* iterations of the while loop in the current walk

mapperVars == <<mPc, inPeople, inOrgs, inParties, inSectors,
                organization_ids, party_ids, sector_ids,
                id_to_organization, id_to_party, id_to_sector,
                people, organizations, parties, sectors,
                errors, vOrg, vCurrent, vVisited, vIter>>

VARIABLES
    \* ---- OrganizationDeduplicator (organization_deduplicator.py)
    dPc,               \* "call" before deduplicate_organizations runs, "returned" after
    dOrgs,             \* argument organizations: dict name -> org data
    dedup_cache,       \* self.cache: key of the name list -> duplicate groups
    canonical_mapping, \* returned mapping original name -> canonical name
    deduplicated,      \* returned dict canonical name -> org data
    dGroups,           \* the duplicate groups the call worked with
    dAiCalls,          \* generation calls the deduplicator has issued
    dFedBack           \* the argument of the call is the table an earlier call returned

dedupVars == <<dPc, dOrgs, dedup_cache, canonical_mapping, deduplicated, dGroups, dAiCalls, dFedBack>>

VARIABLES
    \* ---- phase 3 of the pipeline (main.py, _phase3_normalization)
    nPc,              \* position in _phase3_normalization
    apiKey,           \* Settings.ANTHROPIC_API_KEY is set
    nPeopleIn,        \* the people as phase 3 received them
    nPeople,          \* the people list, rewritten in place
    nOrgs,            \* organizations_from_ai
    org_name_mapping, \* org_name_mapping
    dedupRan          \* deduplicate_organizations has been called

normVars == <<nPc, apiKey, nPeopleIn, nPeople, nOrgs, org_name_mapping, dedupRan>>

VARIABLES
    \* ---- phase 2 of the pipeline (main.py, _phase2_ai_enhancement) and
    \* ---- ClaudeAIEnhancer (ai_enhancer.py)
    ePc,              \* position: "batch", "stage", "finish", "merge", "done"
    enhancerOn,       \* self.ai_enhancer is set (the API key was configured)
    roster,           \* people: the names of the CSV rows, in order
    profile,          \* per name, what phase 1 left on the person and its currentRole
    batch_size,       \* Settings.BATCH_SIZE
    bStart,           \* i of "for i in range(0, len(people), batch_size)"
    wiki_data,        \* the dict name -> wiki record built for the batch
    pIdx,             \* position in the batch of the person enhance_batch works on
    stage,            \* the next of the five stages for that person
    enhanced,         \* the enhanced dict of that person
    all_sources,      \* the citations collected for that person
    enhanced_results, \* the list enhance_batch returns
    enhanced_people,  \* the list _phase2_ai_enhancement returns
    cache,            \* self.cache of the enhancer
    disk,             \* the content of Settings.AI_RESPONSES_CACHE_FILE
    lastOp,           \* history: the sub-operation that ran last for that person
    failedStages,     \* history: the stages of that person whose request failed
    failedIds,        \* history: the ids of the people of the batches that failed
    restarted         \* history: the process has been started again

enhVars == <<ePc, enhancerOn, roster, profile, batch_size, bStart, wiki_data, pIdx, stage,
             enhanced, all_sources, enhanced_results, enhanced_people, cache, disk,
             lastOp, failedStages, failedIds, restarted>>

VARIABLES
    wPc,   \* ---- WikipediaExtractor: "idle", "search", "page", "returned"
    wName,   \* argument name of fetch_person_data
    wAttempt,   \* attempt of the retry wrapper around the running lookup
    wCache,   \* self.cache: name -> record or None
    wDisk,   \* the content of Settings.WIKIPEDIA_CACHE_FILE
    wResult,   \* what fetch_person_data returned last
    wRequests,   \* history: HTTP requests sent by the call
    wAdmissions,   \* history: rate limiter admissions of the call
    wExhausted,   \* history: the call ended because the retries were used up
    wLastReply,   \* history: what the last request came to
    wLastSave   \* history: how the last _save_cache since the load ended

wikiVars == <<wPc, wName, wAttempt, wCache, wDisk, wResult, wRequests, wAdmissions, wExhausted, wLastReply, wLastSave>>

VARIABLES
    max_calls,   \* RateLimiter.max_calls
    period,   \* RateLimiter.period
    calls,   \* RateLimiter.calls, the deque of recorded timestamps
    lock,   \* the thread holding RateLimiter.lock, NoThread if free
    rlPc,   \* position of each thread inside wait_if_needed
    rlWake,   \* clock value at which the sleep of a thread may end
    clock,   \* the value time.time() returns
    rlAdmitted,   \* every timestamp ever recorded, in order of admission
    rlRaised   \* calls of wait_if_needed that raised IndexError

limiterVars == <<max_calls, period, calls, lock, rlPc, rlWake, clock, rlAdmitted, rlRaised>>

VARIABLES
    policy,   \* the arguments of the decorator
    rtPc,   \* position inside wrapper
    attempt,   \* loop variable of wrapper
    delay,   \* delay of the next sleep
    last_exception,   \* last caught exception
    rtLog,   \* outcome of each invocation of func in this call
    rtSleeps,   \* the delays slept in this call
    rtRaised   \* the exception that left wrapper, "none" if none

retryVars == <<policy, rtPc, attempt, delay, last_exception, rtLog, rtSleeps, rtRaised>>

VARIABLES
    p4Pc,   \* position in _phase4_validation_export and the end of run()
    entities,   \* the normalized entities phase 4 is given
    validation_report,   \* the report of validate_all
    report_file,   \* quality_report.json
    output_files,   \* the tables write_all has written, in order
    csv_rows,   \* the rows written to each of them
    summary,   \* processing_summary.json
    p4IoError   \* a file could not be written

phase4Vars == <<p4Pc, entities, validation_report, report_file, output_files, csv_rows, summary, p4IoError>>

VARIABLES
    tcPc,   \* where the chunker is: idle, chunked, prioritized
    tcText,   \* the article chunk_text was given
    tcChunks,   \* what chunk_text returned
    tcMaxChunks,   \* max_chunks of the prioritize_chunks call
    tcResult   \* what prioritize_chunks returned

chunkerVars == <<tcPc, tcText, tcChunks, tcMaxChunks, tcResult>>

VARIABLES
    hPc,   \* where analyze_batch_hierarchies is: idle, loop, done
    hOrgs,   \* the keys of the argument organizations, in order
    hIdx,   \* position of the loop in hOrgs
    hHierarchies,   \* the dict hierarchies the batch returns
    hCache,   \* self.cache
    hFile,   \* the content of organization_hierarchy_cache.json
    hHow,   \* history: how each organization of the batch was resolved
    hCacheAtStart,   \* history: self.cache when the batch began
    hLastCall   \* history: how the last generation call for each organization ended

hierarchyVars == <<hPc, hOrgs, hIdx, hHierarchies, hCache, hFile, hHow, hCacheAtStart, hLastCall>>

VARIABLES
    altered   \* a parent pointer of the entity set has been altered

compareVars == <<altered>>

vars == <<idVars, mapperVars, dedupVars, normVars, enhVars, wikiVars, limiterVars, retryVars, phase4Vars, chunkerVars, hierarchyVars, compareVars>>

\* What the actions of one component leave alone: the other components.
IdsFrame == UNCHANGED <<mapperVars, dedupVars, normVars, enhVars, wikiVars, limiterVars, retryVars, phase4Vars, chunkerVars, hierarchyVars, compareVars>>
MapperFrame == UNCHANGED <<idVars, dedupVars, normVars, enhVars, wikiVars, limiterVars, retryVars, phase4Vars, chunkerVars, hierarchyVars, compareVars>>
DedupFrame == UNCHANGED <<idVars, mapperVars, normVars, enhVars, wikiVars, limiterVars, retryVars, phase4Vars, chunkerVars, hierarchyVars, compareVars>>
NormFrame == UNCHANGED <<idVars, enhVars, wikiVars, limiterVars, retryVars, phase4Vars, chunkerVars, hierarchyVars, compareVars>>
EnhanceFrame == UNCHANGED <<idVars, mapperVars, dedupVars, normVars, wikiVars, limiterVars, retryVars, phase4Vars, chunkerVars, hierarchyVars, compareVars>>
WikiFrame == UNCHANGED <<idVars, mapperVars, dedupVars, normVars, enhVars, limiterVars, retryVars, phase4Vars, chunkerVars, hierarchyVars, compareVars>>
LimiterFrame == UNCHANGED <<idVars, mapperVars, dedupVars, normVars, enhVars, wikiVars, retryVars, phase4Vars, chunkerVars, hierarchyVars, compareVars>>
RetryFrame == UNCHANGED <<idVars, mapperVars, dedupVars, normVars, enhVars, wikiVars, limiterVars, phase4Vars, chunkerVars, hierarchyVars, compareVars>>
Phase4Frame == UNCHANGED <<idVars, mapperVars, dedupVars, normVars, enhVars, wikiVars, limiterVars, retryVars, chunkerVars, hierarchyVars, compareVars>>
ChunkerFrame == UNCHANGED <<idVars, mapperVars, dedupVars, normVars, enhVars, wikiVars, limiterVars, retryVars, phase4Vars, hierarchyVars, compareVars>>
HierarchyFrame == UNCHANGED <<idVars, mapperVars, dedupVars, normVars, enhVars, wikiVars, limiterVars, retryVars, phase4Vars, chunkerVars, compareVars>>
CompareFrame == UNCHANGED <<idVars, mapperVars, dedupVars, normVars, enhVars, wikiVars, limiterVars, retryVars, phase4Vars, chunkerVars, hierarchyVars>>

(***************************************************************************)
(* ID formatting: f"P{idx:03d}" and its siblings.                          *)
(* An ID is the pair <<prefix, digits>>; digits is the decimal expansion   *)
(* of idx, padded on the left with zeros to a MINIMUM width of three.     *)
(***************************************************************************)

\* The largest number of entities of one type the ID loop is run over.
MaxEntities == 1000

EntityKinds == {"people", "organizations", "parties", "sectors"}

\* The letter prefix of each entity type's IDs.
Prefix(kind) ==
    CASE kind = "people" -> "P"
      [] kind = "organizations" -> "O"
      [] kind = "parties" -> "PTY"
      [] kind = "sectors" -> "SEC"

RECURSIVE Digits(_)
\* Decimal digits of a natural number, most significant first.
Digits(n) == IF n < 10 THEN <<n>> ELSE Append(Digits(n \div 10), n % 10)

\* The ":03d" format: zero-pad to at least three digits, never truncate.
ZeroPad3(d) == IF Len(d) >= 3 THEN d ELSE [i \in 1..(3 - Len(d)) |-> 0] \o d

\* A formatting slip: ":02d" instead of ":03d".
FormatIdTwoDigits(prefix, idx) ==
    LET d == Digits(idx)
    IN  <<prefix, IF Len(d) >= 2 THEN d ELSE <<0>> \o d>>

FormatId(prefix, idx) == <<prefix, ZeroPad3(Digits(idx))>>

\* The value of a digit string.
RECURSIVE DigitsValue(_)
DigitsValue(d) ==
    IF d = <<>> THEN 0 ELSE 10 * DigitsValue(SubSeq(d, 1, Len(d) - 1)) + d[Len(d)]

(***************************************************************************)
(* The ID assignment loop, one iteration per action.  The loop body reads *)
(* only the index, so the entities themselves are not part of this state. *)
(***************************************************************************)

InitIdsIdle ==
    /\ idKind = "people"
    /\ idIdx = 1
    /\ idList = <<>>
    /\ idPc = "idle"

InitIds ==
    /\ idKind \in EntityKinds
    /\ idIdx = 1
    /\ idList = <<>>
    /\ idPc = "loop"

\* One iteration of "for idx, x in enumerate(xs, 1): id = f'{prefix}{idx:03d}'".
AssignNextId ==
    /\ idPc = "loop"
    /\ idIdx <= MaxEntities
    /\ idList' = Append(idList, FormatId(Prefix(idKind), idIdx))
    /\ idIdx' = idIdx + 1
    /\ UNCHANGED <<idKind, idPc>>
    /\ IdsFrame

\* The input list is exhausted: the loop ends and the result is returned.
AssignIdsReturn ==
    /\ idPc = "loop"
    /\ idPc' = "done"
    /\ UNCHANGED <<idKind, idIdx, idList>>
    /\ IdsFrame

NextIds == AssignNextId \/ AssignIdsReturn

(***************************************************************************)
(* C3: ID format, order and uniqueness.                                    *)
(***************************************************************************)

IdsDistinct == Cardinality({idList[i] : i \in 1..Len(idList)}) = Len(idList)

IdsPrefixed == \A i \in 1..Len(idList) : idList[i][1] = Prefix(idKind)

Null == <<>>

Name(b, p) == <<"n", b, p>>
EmptyName == Name(0, 0)
PartyName(k) == <<"party", k, 0>>
SectorName(k) == <<"sector", k, 0>>

\* str.strip()
Strip(x) == <<x[1], x[2], 0>>

\* Python truthiness of an Optional[str]: None and "" are false.
Truthy(x) == x # Null /\ ~(x[2] = 0 /\ x[3] = 0)

\* x < y for two strings of one kind: the empty string first, then the
\* strings that start with whitespace, then by text.
NameLess(x, y) ==
    /\ x # y
    /\ \/ (x[2] = 0 /\ x[3] = 0)
       \/ /\ ~(y[2] = 0 /\ y[3] = 0)
          /\ \/ x[3] > y[3]
             \/ (x[3] = y[3] /\ x[2] < y[2])

RECURSIVE SortedNames(_)
\* sorted(d.items()) of a dict keyed by name: the keys in ascending order.
SortedNames(S) ==
    IF S = {} THEN <<>>
    ELSE LET m == CHOOSE x \in S : \A y \in S \ {x} : NameLess(x, y)
         IN  <<m>> \o SortedNames(S \ {m})

\* dict.update on a dict modelled as a function.
DictPut(d, new) ==
    [k \in DOMAIN d \cup DOMAIN new |-> IF k \in DOMAIN new THEN new[k] ELSE d[k]]

EmptyDict == [k \in {} |-> Null]

\* EntityRecognizer.extract_party on a role text.  A role is 0 (empty
\* title), -1 (a title with no party pattern) or k > 0 (a title with the
\* "(X)" or "(X-ST)" pattern of the k-th configured party).
ExtractParty(role) == IF role > 0 THEN PartyName(role) ELSE Null

(***************************************************************************)
(* RelationshipMapper                                                      *)
(***************************************************************************)

\* Bounds of the mapper's inputs: people plus organizations per call.
MaxMapped == 3

MapperOrgNames(n) == {Name(b, 0) : b \in 1..n}

\* The organization dicts handed to the mapper: n organizations, each with
\* a sector name or None and a parent name (None, any organization of the
\* dict, itself included, or a name that is no key of the dict).
MapperOrgDicts(n) ==
    [MapperOrgNames(n) ->
        [sector : {Null, SectorName(1)},
         parentOrganization : {Null} \cup MapperOrgNames(n + 1)]]

MapperPeople(m) ==
    [1..m -> [organization : {EmptyName, Name(1, 0), Name(1, 1)},
              currentRole : {0, 1}]]

InitMapperIdle ==
    /\ mPc = "idle"
    /\ inPeople = <<>>
    /\ inOrgs = EmptyDict
    /\ inParties = {}
    /\ inSectors = {}
    /\ organization_ids = EmptyDict
    /\ party_ids = EmptyDict
    /\ sector_ids = EmptyDict
    /\ id_to_organization = EmptyDict
    /\ id_to_party = EmptyDict
    /\ id_to_sector = EmptyDict
    /\ people = <<>>
    /\ organizations = <<>>
    /\ parties = <<>>
    /\ sectors = <<>>
    /\ errors = <<>>
    /\ vOrg = 0
    /\ vCurrent = Null
    /\ vVisited = {}
    /\ vIter = 0

\* RelationshipMapper.__init__ followed by the caller's choice of arguments.
InitMapper ==
    /\ mPc = "assign"
    /\ \E n \in 0..MaxMapped : \E m \in 0..(MaxMapped - n) :
          /\ inOrgs \in MapperOrgDicts(n)
          /\ inPeople \in MapperPeople(m)
    /\ \E full \in BOOLEAN :
          /\ inParties = IF full THEN {PartyName(1)} ELSE {}
          /\ inSectors = IF full THEN {SectorName(1)} ELSE {}
    /\ organization_ids = EmptyDict
    /\ party_ids = EmptyDict
    /\ sector_ids = EmptyDict
    /\ id_to_organization = EmptyDict
    /\ id_to_party = EmptyDict
    /\ id_to_sector = EmptyDict
    /\ people = <<>>
    /\ organizations = <<>>
    /\ parties = <<>>
    /\ sectors = <<>>
    /\ errors = <<>>
    /\ vOrg = 0
    /\ vCurrent = Null
    /\ vVisited = {}
    /\ vIter = 0

\* _assign_people_ids
AssignPeopleIds(ps) ==
    [i \in 1..Len(ps) |->
        [id |-> FormatId("P", i),
         organization |-> ps[i].organization,
         currentRole |-> ps[i].currentRole,
         party |-> Null]]

\* _assign_organization_ids: the entities, numbered in sorted key order.
AssignOrganizationIds(orgs) ==
    LET keys == SortedNames(DOMAIN orgs)
    IN  [i \in 1..Len(keys) |->
            [id |-> FormatId("O", i),
             sector |-> orgs[keys[i]].sector,
             parentOrganization |-> orgs[keys[i]].parentOrganization]]

\* The name -> id entries one _assign_*_ids loop stores.
NameToId(prefix, names) ==
    LET keys == SortedNames(names)
    IN  [k \in names |-> FormatId(prefix, CHOOSE i \in 1..Len(keys) : keys[i] = k)]

\* The id -> name entries one _assign_*_ids loop stores.
IdToName(prefix, names) ==
    LET keys == SortedNames(names)
    IN  [id \in {FormatId(prefix, i) : i \in 1..Len(keys)} |->
            keys[CHOOSE i \in 1..Len(keys) : FormatId(prefix, i) = id]]

\* _assign_party_ids / _assign_sector_ids: the entity lists.
AssignNamedIds(prefix, names) ==
    LET keys == SortedNames(names)
    IN  [i \in 1..Len(keys) |-> [id |-> FormatId(prefix, i), name |-> keys[i]]]

\* assign_all_ids
AssignAllIds ==
    /\ mPc = "assign"
    /\ people' = AssignPeopleIds(inPeople)
    /\ organizations' = AssignOrganizationIds(inOrgs)
    /\ parties' = AssignNamedIds("PTY", inParties)
    /\ sectors' = AssignNamedIds("SEC", inSectors)
    /\ organization_ids' = DictPut(organization_ids, NameToId("O", DOMAIN inOrgs))
    /\ party_ids' = DictPut(party_ids, NameToId("PTY", inParties))
    /\ sector_ids' = DictPut(sector_ids, NameToId("SEC", inSectors))
    /\ id_to_organization' = DictPut(id_to_organization, IdToName("O", DOMAIN inOrgs))
    /\ id_to_party' = DictPut(id_to_party, IdToName("PTY", inParties))
    /\ id_to_sector' = DictPut(id_to_sector, IdToName("SEC", inSectors))
    /\ mPc' = "map"
    /\ UNCHANGED <<inPeople, inOrgs, inParties, inSectors,
                   errors, vOrg, vCurrent, vVisited, vIter>>
    /\ MapperFrame

\* A lookup slip: the ID is built from the name without consulting the
\* table, so a name that has no entry still gets an ID.
LookupIdUnchecked(table, name) ==
    IF Truthy(name)
    THEN (IF name \in DOMAIN table THEN table[name] ELSE FormatId("O", 999))
    ELSE Null

\* "if name and name in self.x_ids: ... = self.x_ids[name] else: ... = None"
LookupId(table, name) ==
    IF Truthy(name) /\ name \in DOMAIN table THEN table[name] ELSE Null

\* _map_person_organizations
MapPersonOrganization(p) == LookupId(organization_ids, Strip(p.organization))

\* _map_person_parties
MapPersonParty(p) ==
    IF p.currentRole # 0
    THEN LET party == ExtractParty(p.currentRole)
         IN  IF party # Null /\ party \in DOMAIN party_ids THEN party_ids[party] ELSE Null
    ELSE Null

\* map_relationships
MapRelationships ==
    /\ mPc = "map"
    /\ people' = [i \in 1..Len(people) |->
                    [people[i] EXCEPT !.organization = MapPersonOrganization(people[i]),
                                      !.party = MapPersonParty(people[i])]]
    /\ organizations' = [i \in 1..Len(organizations) |->
                    [organizations[i] EXCEPT
                        !.sector = LookupId(sector_ids, organizations[i].sector),
                        !.parentOrganization =
                            LookupId(organization_ids, organizations[i].parentOrganization)]]
    /\ mPc' = "validate"
    /\ UNCHANGED <<inPeople, inOrgs, inParties, inSectors,
                   organization_ids, party_ids, sector_ids,
                   id_to_organization, id_to_party, id_to_sector,
                   parties, sectors, errors, vOrg, vCurrent, vVisited, vIter>>
    /\ MapperFrame

(***************************************************************************)
(* validate_references and _detect_circular_references                     *)
(***************************************************************************)

\* The four dangling-reference loops of validate_references, in order.
DanglingErrors ==
    LET badOrg(p)    == p.organization # Null /\ p.organization \notin DOMAIN id_to_organization
        badParty(p)  == p.party # Null /\ p.party \notin DOMAIN id_to_party
        badSector(o) == o.sector # Null /\ o.sector \notin DOMAIN id_to_sector
        badParent(o) == o.parentOrganization # Null
                        /\ o.parentOrganization \notin DOMAIN id_to_organization
        err(kind, s) == [i \in 1..Len(s) |-> [kind |-> kind, id |-> s[i].id]]
    IN  err("invalid organization", SelectSeq(people, badOrg))
        \o err("invalid party", SelectSeq(people, badParty))
        \o err("invalid sector", SelectSeq(organizations, badSector))
        \o err("invalid parent", SelectSeq(organizations, badParent))

\* A walk that reuses the visited set of the walk before it.
WalkStartVisitedShared(previous) == previous

\* "visited = set()" at the start of each organization's walk.
WalkStartVisited(previous) == {}

\* The inner for loop: the parent of the first organization whose id is
\* current, None when no organization has that id.
FindParent(orgs, current) ==
    LET hits == {i \in 1..Len(orgs) : orgs[i].id = current}
    IN  IF hits = {} THEN Null
        ELSE orgs[CHOOSE i \in hits : \A j \in hits : i <= j].parentOrganization

\* validate_references up to the call of _detect_circular_references, and
\* the setup of the first organization's walk.
ValidateReferences ==
    /\ mPc = "validate"
    /\ errors' = DanglingErrors
    /\ IF Len(organizations) = 0
       THEN /\ mPc' = "done"
            /\ UNCHANGED <<vOrg, vCurrent, vVisited, vIter>>
       ELSE /\ mPc' = "walk"
            /\ vOrg' = 1
            /\ vCurrent' = organizations[1].id
            /\ vVisited' = WalkStartVisited(vVisited)
            /\ vIter' = 0
    /\ UNCHANGED <<inPeople, inOrgs, inParties, inSectors,
                   organization_ids, party_ids, sector_ids,
                   id_to_organization, id_to_party, id_to_sector,
                   people, organizations, parties, sectors>>
    /\ MapperFrame

\* Leave the while loop of the current walk: go on with the next
\* organization of the for loop, or return.
NextWalk ==
    IF vOrg < Len(organizations)
    THEN /\ mPc' = "walk"
         /\ vOrg' = vOrg + 1
         /\ vCurrent' = organizations[vOrg + 1].id
         /\ vVisited' = WalkStartVisited(vVisited)
         /\ vIter' = 0
    ELSE /\ mPc' = "done"
         /\ UNCHANGED <<vOrg, vCurrent, vVisited, vIter>>

WalkUnchanged ==
    UNCHANGED <<inPeople, inOrgs, inParties, inSectors,
                organization_ids, party_ids, sector_ids,
                id_to_organization, id_to_party, id_to_sector,
                people, organizations, parties, sectors>>

\* "while current:" is false: the chain ended without a repeat.
WalkEnd ==
    /\ mPc = "walk"
    /\ vCurrent = Null
    /\ NextWalk
    /\ UNCHANGED errors
    /\ WalkUnchanged
    /\ MapperFrame

\* "if current in visited: errors.append(...); break"
WalkCycleFound ==
    /\ mPc = "walk"
    /\ vCurrent # Null
    /\ vCurrent \in vVisited
    /\ errors' = Append(errors, [kind |-> "circular", id |-> organizations[vOrg].id])
    /\ NextWalk
    /\ WalkUnchanged
    /\ MapperFrame

\* "visited.add(current); current = parent"
WalkFollowParent ==
    /\ mPc = "walk"
    /\ vCurrent # Null
    /\ vCurrent \notin vVisited
    /\ vVisited' = vVisited \cup {vCurrent}
    /\ vCurrent' = FindParent(organizations, vCurrent)
    /\ vIter' = vIter + 1
    /\ UNCHANGED <<mPc, vOrg, errors>>
    /\ WalkUnchanged
    /\ MapperFrame

NextMapper ==
    \/ AssignAllIds
    \/ MapRelationships
    \/ ValidateReferences
    \/ WalkEnd
    \/ WalkCycleFound
    \/ WalkFollowParent

(***************************************************************************)
(* C1: referential integrity after assign_all_ids and map_relationships.   *)
(***************************************************************************)

Mapped == mPc \in {"validate", "walk", "done"}

IdsOf(table) == {table[i].id : i \in 1..Len(table)}

\* C1: after assign_all_ids and map_relationships on one entity set, every
\* non-null Person.organization, Person.party, Organization.sector and
\* Organization.parentOrganization is the ID of a row of the corresponding
\* table, a name without an exact match in the table has become null, and
\* validate_references reports no invalid reference.
C1_ReferentialIntegrity ==
    /\ Mapped =>
        /\ \A i \in 1..Len(people) :
              /\ people[i].organization \in {Null} \cup IdsOf(organizations)
              /\ people[i].party \in {Null} \cup IdsOf(parties)
              /\ Strip(inPeople[i].organization) \notin DOMAIN inOrgs
                    => people[i].organization = Null
              /\ ExtractParty(inPeople[i].currentRole) \notin inParties
                    => people[i].party = Null
        /\ \A i \in 1..Len(organizations) :
              /\ organizations[i].sector \in {Null} \cup IdsOf(sectors)
              /\ organizations[i].parentOrganization \in {Null} \cup IdsOf(organizations)
        /\ \A k \in DOMAIN inOrgs :
              LET o == organizations[CHOOSE i \in 1..Len(organizations) :
                                        organizations[i].id = organization_ids[k]]
              IN  /\ inOrgs[k].sector \notin inSectors => o.sector = Null
                  /\ inOrgs[k].parentOrganization \notin DOMAIN inOrgs
                        => o.parentOrganization = Null
    /\ mPc \in {"walk", "done"} =>
          \A i \in 1..Len(errors) : errors[i].kind = "circular"

\* A mapped entity set with a person linked to an organization and to a
\* party, an organization linked to a sector and to a parent, and an
\* organization whose parent name had no match and became null.
C1_Witness ==
    /\ mPc = "done"
    /\ \E i \in 1..Len(people) :
          people[i].organization # Null /\ people[i].party # Null
    /\ \E i \in 1..Len(organizations) :
          organizations[i].sector # Null /\ organizations[i].parentOrganization # Null
    /\ \E k \in DOMAIN inOrgs :
          /\ inOrgs[k].parentOrganization # Null
          /\ inOrgs[k].parentOrganization \notin DOMAIN inOrgs

(***************************************************************************)
(* C2: cycle detection in the parent chain.                                *)
(***************************************************************************)

RECURSIVE ParentIter(_, _, _)
\* The id reached from id after k parent steps (None once the chain ends).
ParentIter(orgs, id, k) ==
    IF k = 0 \/ id = Null THEN id
    ELSE ParentIter(orgs, FindParent(orgs, id), k - 1)

\* Some organization lies on a cycle of parent pointers.
HasCycle(orgs) ==
    \E i \in 1..Len(orgs) : \E k \in 1..Len(orgs) :
        ParentIter(orgs, orgs[i].id, k) = orgs[i].id

\* C2: validate_references terminates (no walk runs more iterations than
\* there are organizations plus one); when it returns it has reported a
\* circular reference exactly if the parent pointers contain a cycle; each
\* walk's visited set holds only IDs on the chain of the walk's own
\* organization.
C2_CycleDetectionTerminates ==
    /\ vIter <= Len(organizations) + 1
    /\ mPc = "walk" =>
          vVisited \subseteq
              {ParentIter(organizations, organizations[vOrg].id, k) :
                  k \in 0..Len(organizations)}
    /\ mPc = "done" =>
          ((\E i \in 1..Len(errors) : errors[i].kind = "circular")
              <=> HasCycle(organizations))

\* validate_references returned after reporting a cycle of length two or
\* more (C2_WitnessCycle); and it returned without a report for a chain
\* with a parent link and no cycle.
C2_Witness ==
    /\ mPc = "done"
    /\ \E i \in 1..Len(errors) : errors[i].kind = "circular"
    /\ \E i \in 1..Len(organizations) :
          /\ organizations[i].parentOrganization # Null
          /\ organizations[i].parentOrganization # organizations[i].id

(***************************************************************************)
(* OrganizationDeduplicator                                                *)
(*                                                                         *)
(* A Python dict whose iteration order the code relies on is a sequence of *)
(* <<key, value>> pairs with distinct keys, in insertion order.            *)
(***************************************************************************)

OKeys(d) == {d[i][1] : i \in 1..Len(d)}

OHas(d, k) == k \in OKeys(d)

\* d[k]
OGet(d, k) == d[CHOOSE i \in 1..Len(d) : d[i][1] = k][2]

\* d[k] = v: an existing key keeps its position.
OPut(d, k, v) ==
    IF OHas(d, k)
    THEN [i \in 1..Len(d) |-> IF d[i][1] = k THEN <<k, v>> ELSE d[i]]
    ELSE Append(d, <<k, v>>)

\* The most groups one answer of the collaborator lists.
MaxGroups == 2

\* The most groups of a call whose table is handed back, and of the answer
\* to the call that receives it.
MaxFedBackGroups == 1

\* The stripped, non-empty names the pipeline harvests.
OrgNames == {Name(1, 0), Name(2, 0)}

\* The names an answer may list as variants: the input names and one name
\* that is in no input.
ResponseNames == OrgNames \cup {Name(3, 0)}

\* The canonical names an answer may give: an input name, a new name, a name
\* with surrounding whitespace, or the empty string.
CanonicalNames == {Name(1, 0), Name(3, 0), Name(1, 1), EmptyName}

\* The variant lists of an answer, each written in ascending order.
VariantLists == {SortedNames(S) : S \in SUBSET ResponseNames}

\* The "duplicateGroups" arrays of the answers that parse.
RECURSIVE GroupLists(_)
GroupLists(n) ==
    IF n = 0 THEN {<<>>}
    ELSE LET shorter == GroupLists(n - 1)
         IN  shorter \cup
             {Append(g, <<c, v>>) :
                 g \in {x \in shorter : Len(x) = n - 1},
                 c \in CanonicalNames, v \in VariantLists}

\* What one generation call of _find_duplicate_groups may produce: an
\* exception of the transport, text that is no JSON object, or an array of
\* groups.
DedupResponses ==
    {<<"transport_error">>, <<"unparseable">>}
    \cup {<<"groups", g>> : g \in GroupLists(MaxGroups)}

\* The sector infer_sector gives for a name; the keyword table is abstracted
\* to two sectors selected by the name's text.
InferSector(org_name) == SectorName(1 + (org_name[2] % 2))

\* The organization entry _extract_organizations_from_people creates.
OrgData(org_name) ==
    [name |-> org_name, sector |-> InferSector(org_name), parentOrganization |-> Null]

\* The organization dicts with n keys, in every insertion order.
RECURSIVE OrgDictsOfSize(_)
OrgDictsOfSize(n) ==
    IF n = 0 THEN {<<>>}
    ELSE {Append(d, <<k, OrgData(k)>>) :
             d \in OrgDictsOfSize(n - 1), k \in OrgNames} 

Injective(d) == \A i, j \in 1..Len(d) : d[i][1] = d[j][1] => i = j

OrgDicts == UNION {{d \in OrgDictsOfSize(n) : Injective(d)} : n \in 0..Cardinality(OrgNames)}

\* cache_key = "|".join(sorted(org_names)): the names in ascending order.
DedupCacheKey(org_names) == SortedNames(org_names)

\* The loop over result['duplicateGroups'] in _find_duplicate_groups:
\* "if canonical and variants: duplicate_groups[canonical] = variants".
ParseGroups(groups) ==
    LET F[i \in 0..Len(groups)] ==
            IF i = 0 THEN <<>>
            ELSE IF Truthy(groups[i][1]) /\ groups[i][2] # <<>>
                 THEN OPut(F[i - 1], groups[i][1], groups[i][2])
                 ELSE F[i - 1]
    IN  F[Len(groups)]

\* The groups _find_duplicate_groups returns for one answer; the except
\* branch returns {}.
GroupsOfResponse(resp) ==
    IF resp[1] = "groups" THEN ParseGroups(resp[2]) ELSE <<>>

\* Every value _find_duplicate_groups may make of an answer, which is also
\* every value an earlier call may have left in the cache.
ParsedAnswers == {GroupsOfResponse(r) : r \in DedupResponses}

\* "for variant in variants: if variant in organizations: source_variant =
\* variant; break"
SourceVariant(variants, orgs) ==
    LET hits == {i \in 1..Len(variants) : OHas(orgs, variants[i])}
    IN  IF hits = {} THEN Null
        ELSE variants[CHOOSE i \in hits : \A j \in hits : i <= j]

\* "for variant in variants: canonical_mapping[variant] = canonical_name"
MapVariants(mapping, variants, canonical) ==
    LET F[i \in 0..Len(variants)] ==
            IF i = 0 THEN mapping ELSE OPut(F[i - 1], variants[i], canonical)
    IN  F[Len(variants)]

\* The loop over duplicate_groups.items(): the pair
\* <<canonical_mapping, variant_to_source>> it leaves.
MapGroups(groups, orgs) ==
    LET F[i \in 0..Len(groups)] ==
            IF i = 0 THEN <<<<>>, <<>>>>
            ELSE LET canonical == groups[i][1]
                     variants == groups[i][2]
                     source == SourceVariant(variants, orgs)
                 IN  IF Truthy(source)
                     THEN <<MapVariants(F[i - 1][1], variants, canonical),
                            OPut(F[i - 1][2], canonical, source)>>
                     ELSE F[i - 1]
    IN  F[Len(groups)]

\* A deduplicator that leaves the names of no group out of the mapping.
AddSelfMappingsSkipped(maps, orgs) == maps

\* "for name in org_names: if name not in canonical_mapping:
\* canonical_mapping[name] = name; variant_to_source[name] = name"
AddSelfMappings(maps, orgs) ==
    LET F[i \in 0..Len(orgs)] ==
            IF i = 0 THEN maps
            ELSE LET name == orgs[i][1]
                 IN  IF OHas(F[i - 1][1], name) THEN F[i - 1]
                     ELSE <<OPut(F[i - 1][1], name, name), OPut(F[i - 1][2], name, name)>>
    IN  F[Len(orgs)]

\* A table that keeps each record under the name it came with.
BuildDeduplicatedUnderSource(maps, orgs) ==
    LET mapping == maps[1]
        variant_to_source == maps[2]
        F[i \in 0..Len(mapping)] ==
            IF i = 0 THEN <<>>
            ELSE LET source_name == IF OHas(variant_to_source, mapping[i][2])
                                    THEN OGet(variant_to_source, mapping[i][2])
                                    ELSE mapping[i][1]
                 IN  IF ~OHas(F[i - 1], source_name) /\ OHas(orgs, source_name)
                     THEN OPut(F[i - 1], source_name, OGet(orgs, source_name))
                     ELSE F[i - 1]
    IN  F[Len(mapping)]

\* The loop that builds deduplicated from canonical_mapping.items().
BuildDeduplicated(maps, orgs) ==
    LET mapping == maps[1]
        variant_to_source == maps[2]
        F[i \in 0..Len(mapping)] ==
            IF i = 0 THEN <<>>
            ELSE LET original_name == mapping[i][1]
                     canonical_name == mapping[i][2]
                     source_name == IF OHas(variant_to_source, canonical_name)
                                    THEN OGet(variant_to_source, canonical_name)
                                    ELSE original_name
                 IN  IF ~OHas(F[i - 1], canonical_name) /\ OHas(orgs, source_name)
                     THEN OPut(F[i - 1], canonical_name,
                               [OGet(orgs, source_name) EXCEPT !.name = canonical_name])
                     ELSE F[i - 1]
    IN  F[Len(mapping)]

\* deduplicate_organizations after _find_duplicate_groups has returned
\* groups: <<deduplicated, canonical_mapping>>.
DeduplicateWithGroups(orgs, groups) ==
    LET maps == AddSelfMappings(MapGroups(groups, orgs), orgs)
    IN  <<BuildDeduplicated(maps, orgs), maps[1]>>

\* "mapping = {name: name for name in organizations.keys()}"
IdentityMappingEmpty(orgs) == <<>>
IdentityMapping(orgs) == [i \in 1..Len(orgs) |-> <<orgs[i][1], orgs[i][1]>>]

InitDedupIdle ==
    /\ dPc = "idle"
    /\ dOrgs = <<>>
    /\ dedup_cache = EmptyDict
    /\ canonical_mapping = <<>>
    /\ deduplicated = <<>>
    /\ dGroups = <<>>
    /\ dAiCalls = 0
    /\ dFedBack = FALSE

\* OrganizationDeduplicator.__init__ (the cache file is absent or holds the
\* entry an earlier run stored under this call's key) and the caller's
\* choice of organizations.
InitDedup ==
    /\ dPc = "call"
    /\ dOrgs \in OrgDicts
    /\ \/ dedup_cache = EmptyDict
       \/ /\ Len(dOrgs) > 1
          /\ \E g \in ParsedAnswers :
                dedup_cache = DictPut(EmptyDict, [k \in {DedupCacheKey(OKeys(dOrgs))} |-> g])
    /\ canonical_mapping = <<>>
    /\ deduplicated = <<>>
    /\ dGroups = <<>>
    /\ dAiCalls = 0
    /\ dFedBack = FALSE

\* deduplicate_organizations with at most one organization: the identity,
\* no generation call.
DeduplicateTrivial ==
    /\ dPc = "call"
    /\ Len(dOrgs) <= 1
    /\ deduplicated' = dOrgs
    /\ canonical_mapping' = IdentityMapping(dOrgs)
    /\ dPc' = "returned"
    /\ dGroups' = <<>>
    /\ UNCHANGED <<dOrgs, dedup_cache, dAiCalls, dFedBack>>
    /\ DedupFrame

\* deduplicate_organizations when _find_duplicate_groups finds its key in
\* the cache.
DeduplicateCached ==
    /\ dPc = "call"
    /\ Len(dOrgs) > 1
    /\ DedupCacheKey(OKeys(dOrgs)) \in DOMAIN dedup_cache
    /\ LET groups == dedup_cache[DedupCacheKey(OKeys(dOrgs))]
           out == DeduplicateWithGroups(dOrgs, groups)
       IN  /\ dGroups' = groups
           /\ deduplicated' = out[1]
           /\ canonical_mapping' = out[2]
    /\ dPc' = "returned"
    /\ UNCHANGED <<dOrgs, dedup_cache, dAiCalls, dFedBack>>
    /\ DedupFrame

\* deduplicate_organizations when _find_duplicate_groups issues the
\* generation call and caches what it made of the answer.
DeduplicateWithCall ==
    /\ dPc = "call"
    /\ Len(dOrgs) > 1
    /\ DedupCacheKey(OKeys(dOrgs)) \notin DOMAIN dedup_cache
    /\ \E groups \in ParsedAnswers :
          LET out == DeduplicateWithGroups(dOrgs, groups)
          IN  /\ dFedBack => Len(groups) <= MaxFedBackGroups
              /\ dGroups' = groups
              /\ dedup_cache' =
                    DictPut(dedup_cache, [k \in {DedupCacheKey(OKeys(dOrgs))} |-> groups])
              /\ deduplicated' = out[1]
              /\ canonical_mapping' = out[2]
    /\ dAiCalls' = dAiCalls + 1
    /\ dPc' = "returned"
    /\ UNCHANGED <<dOrgs, dFedBack>>
    /\ DedupFrame

\* The caller hands the table one call returned, whose keys are the
\* canonical names, to deduplicate_organizations again.
DeduplicateAgain ==
    /\ dPc = "returned"
    /\ ~dFedBack
    /\ Len(dGroups) <= MaxFedBackGroups
    /\ dOrgs' = deduplicated
    /\ dFedBack' = TRUE
    /\ dPc' = "call"
    /\ canonical_mapping' = <<>>
    /\ deduplicated' = <<>>
    /\ dGroups' = <<>>
    /\ UNCHANGED <<dedup_cache, dAiCalls>>
    /\ DedupFrame

NextDedup ==
    \/ DeduplicateTrivial
    \/ DeduplicateCached
    \/ DeduplicateWithCall
    \/ DeduplicateAgain

(***************************************************************************)
(* C4: the returned mapping is total over the input names.                 *)
(***************************************************************************)

\* The names some group of the call lists as a variant and maps.
GroupedNames ==
    {n \in OKeys(dOrgs) :
        \E i \in 1..Len(dGroups) :
            /\ \E j \in 1..Len(dGroups[i][2]) : dGroups[i][2][j] = n}

\* C4: when deduplicate_organizations has returned, every input name is a
\* key of the returned mapping, whatever the collaborator answered (nothing,
\* a partial or overlapping grouping, an error), and an input name that no
\* group lists maps to itself.
C4_MappingTotal ==
    dPc = "returned" =>
        /\ OKeys(dOrgs) \subseteq OKeys(canonical_mapping)
        /\ \A n \in OKeys(dOrgs) \ GroupedNames : OGet(canonical_mapping, n) = n

\* A call that issued the generation request, got a group that renames one
\* input name and leaves another input name in no group.
C4_Witness ==
    /\ dPc = "returned"
    /\ dAiCalls = 1
    /\ Len(dOrgs) = 2
    /\ \E n \in OKeys(dOrgs) : OGet(canonical_mapping, n) # n
    /\ OKeys(dOrgs) \ GroupedNames # {}

\* C30: in what deduplicate_organizations returns, every canonical name of
\* the mapping is a key of the deduplicated table and the record under every
\* key of the table carries that key as its name; so the name a person's
\* organization is rewritten to is in the table.
C30_CanonicalNamesInTable ==
    dPc = "returned" =>
        /\ \A i \in 1..Len(canonical_mapping) :
              OHas(deduplicated, canonical_mapping[i][2])
        /\ \A k \in OKeys(deduplicated) : OGet(deduplicated, k).name = k

\* Two input names were merged under a canonical name that is neither.
C30_Witness ==
    /\ dPc = "returned"
    /\ Len(dOrgs) = 2
    /\ \E c \in OKeys(deduplicated) :
          /\ c \notin OKeys(dOrgs)
          /\ \A n \in OKeys(dOrgs) : OGet(canonical_mapping, n) = c

(***************************************************************************)
(* C18: deduplicating names that are canonical already.                    *)
(***************************************************************************)

\* The groups of the call leave every input name alone: an input name that a
\* group lists as a variant is that group's canonical name.
RenamesNothing ==
    \A i \in 1..Len(dGroups) : \A j \in 1..Len(dGroups[i][2]) :
        dGroups[i][2][j] \in OKeys(dOrgs) => dGroups[i][2][j] = dGroups[i][1]

\* Every input name is mapped to itself and the returned table holds exactly
\* the input names, each with the data it came with.
IdentityResult ==
    /\ \A n \in OKeys(dOrgs) : OHas(canonical_mapping, n) /\ OGet(canonical_mapping, n) = n
    /\ OKeys(deduplicated) = OKeys(dOrgs)
    /\ \A n \in OKeys(dOrgs) : OGet(deduplicated, n) = OGet(dOrgs, n)

\* C18 as stated: a call whose argument is the table of canonical names an
\* earlier call returned gives the identity.
C18_Original_FedBackIsIdentity == (dPc = "returned" /\ dFedBack) => IdentityResult

\* C18: a call of deduplicate_organizations, on the names as harvested or on
\* the table an earlier call returned, gives the identity mapping and the
\* input table whenever the groups it works with (from the answer of the
\* collaborator or from the cache) rename no input name, which includes no
\* groups at all, an answer that does not parse and a failed request.
C18_IdentityWhenNothingRenamed == (dPc = "returned" /\ RenamesNothing) => IdentityResult

\* The table of a first call that renamed a name went through a second call
\* that asked the collaborator and got a group that renames nothing.
C18_Witness ==
    /\ dPc = "returned"
    /\ dFedBack
    /\ dAiCalls = 2
    /\ Len(dOrgs) = 2
    /\ dGroups # <<>>
    /\ RenamesNothing
    /\ IdentityResult

(***************************************************************************)
(* Phase 3 of the pipeline (main.py, _phase3_normalization): harvest the   *)
(* organizations, deduplicate them, analyse hierarchies, then hand people  *)
(* and organizations to the RelationshipMapper.                            *)
(***************************************************************************)

\* The most people a run of phase 3 is given.
MaxNormPeople == 2

\* The organization field of a person after phase 2: absent or empty, only
\* whitespace, a name with surrounding whitespace, or a name without.
PersonOrgValues == {EmptyName, Name(0, 1), Name(1, 1), Name(2, 0)}

NormPeople ==
    UNION {[1..m -> [organization : PersonOrgValues, currentRole : {1}]] :
              m \in 0..MaxNormPeople}

\* The parents analyze_batch_hierarchies may report for an organization.
ParentValues == {Null, Name(1, 0)}

\* The results of analyze_batch_hierarchies for n organizations: an entry
\* for every organization.
Hierarchies(n) == [1..n -> ParentValues]

\* _extract_organizations_from_people
ExtractOrganizationsFromPeople(ps) ==
    LET F[i \in 0..Len(ps)] ==
            IF i = 0 THEN <<>>
            ELSE LET org_name == Strip(ps[i].organization)
                 IN  IF Truthy(org_name) /\ ~OHas(F[i - 1], org_name)
                     THEN OPut(F[i - 1], org_name, OrgData(org_name))
                     ELSE F[i - 1]
    IN  F[Len(ps)]

\* A pipeline that never rewrites a person's organization.
ApplyMappingSkipped(person, mapping) == person

\* The body of "for person in people:" that rewrites person['organization']
\* with the canonical name.
ApplyMapping(person, mapping) ==
    LET original_org == Strip(person.organization)
    IN  IF Truthy(original_org) /\ OHas(mapping, original_org)
           /\ original_org # OGet(mapping, original_org)
        THEN [person EXCEPT !.organization = OGet(mapping, original_org)]
        ELSE person

\* "for org_name, org_data in organizations_from_ai.items(): if org_name in
\* hierarchies: org_data['parentOrganization'] = hierarchies[org_name]"
ApplyHierarchies(orgs, hierarchies) ==
    [i \in 1..Len(orgs) |->
        <<orgs[i][1], [orgs[i][2] EXCEPT !.parentOrganization = hierarchies[i]]>>]

\* The organizations argument of assign_all_ids as the mapper reads it.
AsMapperOrgs(orgs) ==
    [k \in OKeys(orgs) |->
        [sector |-> OGet(orgs, k).sector,
         parentOrganization |-> OGet(orgs, k).parentOrganization]]

InitNormIdle ==
    /\ nPc = "idle"
    /\ apiKey = FALSE
    /\ nPeopleIn = <<>>
    /\ nPeople = <<>>
    /\ nOrgs = <<>>
    /\ org_name_mapping = <<>>
    /\ dedupRan = FALSE

\* The pipeline at the start of phase 3.  Without an API key phase 2 has
\* no enhancer and returns the CSV rows, which carry no organization field.
InitNorm ==
    /\ nPc = "extract"
    /\ apiKey \in BOOLEAN
    /\ nPeopleIn \in NormPeople
    /\ ~apiKey => \A i \in 1..Len(nPeopleIn) : nPeopleIn[i].organization = EmptyName
    /\ nPeople = nPeopleIn
    /\ nOrgs = <<>>
    /\ org_name_mapping = <<>>
    /\ dedupRan = FALSE

NormUnchangedMapper ==
    UNCHANGED <<mPc, inPeople, inOrgs, inParties, inSectors,
                organization_ids, party_ids, sector_ids,
                id_to_organization, id_to_party, id_to_sector,
                people, organizations, parties, sectors,
                errors, vOrg, vCurrent, vVisited, vIter>>

\* Step 3.0: organizations_from_ai = _extract_organizations_from_people(people)
NormExtract ==
    /\ nPc = "extract"
    /\ nOrgs' = ExtractOrganizationsFromPeople(nPeople)
    /\ nPc' = "dedup"
    /\ UNCHANGED <<apiKey, nPeopleIn, nPeople, org_name_mapping, dedupRan>>
    /\ UNCHANGED dedupVars
    /\ NormUnchangedMapper
    /\ NormFrame

\* Step 3.0.3 when "Settings.ANTHROPIC_API_KEY and len(organizations_from_ai)
\* > 1" is false: no deduplicator is built.
NormSkipDedup ==
    /\ nPc = "dedup"
    /\ ~(apiKey /\ Len(nOrgs) > 1)
    /\ nPc' = "hierarchy"
    /\ UNCHANGED <<apiKey, nPeopleIn, nPeople, nOrgs, org_name_mapping, dedupRan>>
    /\ UNCHANGED dedupVars
    /\ NormUnchangedMapper
    /\ NormFrame

\* Step 3.0.3: a new OrganizationDeduplicator deduplicates the harvested
\* organizations and the mapping is applied to the people.
NormDeduplicate ==
    /\ nPc = "dedup"
    /\ apiKey /\ Len(nOrgs) > 1
    /\ LET key == DedupCacheKey(OKeys(nOrgs))
           hit == key \in DOMAIN dedup_cache
       IN  \E groups \in (IF hit THEN {dedup_cache[key]} ELSE ParsedAnswers) :
              LET out == DeduplicateWithGroups(nOrgs, groups)
              IN  /\ dOrgs' = nOrgs
                  /\ dGroups' = groups
                  /\ dedup_cache' = DictPut(dedup_cache, [k \in {key} |-> groups])
                  /\ dAiCalls' = IF hit THEN dAiCalls ELSE dAiCalls + 1
                  /\ deduplicated' = out[1]
                  /\ canonical_mapping' = out[2]
                  /\ dPc' = "returned"
                  /\ dFedBack' = FALSE
                  /\ nOrgs' = out[1]
                  /\ org_name_mapping' = out[2]
                  /\ nPeople' = [i \in 1..Len(nPeople) |-> ApplyMapping(nPeople[i], out[2])]
    /\ dedupRan' = TRUE
    /\ nPc' = "hierarchy"
    /\ UNCHANGED <<apiKey, nPeopleIn>>
    /\ NormUnchangedMapper
    /\ NormFrame

\* The call "self.relationship_mapper.assign_all_ids(people,
\* organizations_from_ai, entities['parties'], entities['sectors'])" as far
\* as binding the arguments; AssignAllIds is the body.
CallAssignAllIds(orgs) ==
    /\ inPeople' = nPeople
    /\ inOrgs' = AsMapperOrgs(orgs)
    /\ inParties' = {PartyName(1)}
    /\ inSectors' = {SectorName(1)}
    /\ mPc' = "assign"
    /\ UNCHANGED <<organization_ids, party_ids, sector_ids,
                   id_to_organization, id_to_party, id_to_sector,
                   people, organizations, parties, sectors,
                   errors, vOrg, vCurrent, vVisited, vIter>>

\* Step 3.0.5 when "Settings.ANTHROPIC_API_KEY and organizations_from_ai" is
\* false, then step 3.1.
NormSkipHierarchy ==
    /\ nPc = "hierarchy"
    /\ ~(apiKey /\ Len(nOrgs) > 0)
    /\ CallAssignAllIds(nOrgs)
    /\ nPc' = "handed"
    /\ UNCHANGED <<apiKey, nPeopleIn, nPeople, nOrgs, org_name_mapping, dedupRan>>
    /\ UNCHANGED dedupVars
    /\ NormFrame

\* Step 3.0.5: the hierarchy analyzer reports a parent or None for every
\* organization; then step 3.1.
NormHierarchy ==
    /\ nPc = "hierarchy"
    /\ apiKey /\ Len(nOrgs) > 0
    /\ \E hierarchies \in Hierarchies(Len(nOrgs)) :
          /\ nOrgs' = ApplyHierarchies(nOrgs, hierarchies)
          /\ CallAssignAllIds(ApplyHierarchies(nOrgs, hierarchies))
    /\ nPc' = "handed"
    /\ UNCHANGED <<apiKey, nPeopleIn, nPeople, org_name_mapping, dedupRan>>
    /\ UNCHANGED dedupVars
    /\ NormFrame

\* Phase 3 up to the moment map_relationships begins.
NextNorm ==
    \/ NormExtract
    \/ NormSkipDedup
    \/ NormDeduplicate
    \/ NormSkipHierarchy
    \/ NormHierarchy
    \/ AssignAllIds

(***************************************************************************)
(* C5: deduplication before relationship mapping.                          *)
(***************************************************************************)

\* The mapping has been applied to person i: a name the mapping renames has
\* been replaced by its canonical name.
MappingApplied(i) ==
    LET o == Strip(nPeopleIn[i].organization)
    IN  inPeople[i].organization =
            IF Truthy(o) /\ OHas(org_name_mapping, o) /\ OGet(org_name_mapping, o) # o
            THEN OGet(org_name_mapping, o)
            ELSE nPeopleIn[i].organization

\* C5 as stated: in every run, when map_relationships begins, the
\* deduplicator has run, its mapping has been applied to every person, and
\* every person's non-empty organization name is a key of the organization
\* table handed to assign_all_ids.
C5_Original_DedupRunsInEveryRun ==
    mPc = "map" =>
        /\ dedupRan
        /\ \A i \in 1..Len(inPeople) : MappingApplied(i)
        /\ \A i \in 1..Len(inPeople) :
              inPeople[i].organization # EmptyName
                  => inPeople[i].organization \in DOMAIN inOrgs

\* C5 amended: the deduplicator runs exactly in the runs that have an API
\* key and harvested more than one organization name; when it runs, its
\* mapping has been applied to every person before map_relationships
\* begins; and in every run, when map_relationships begins, every person's
\* organization name that is non-empty after trimming is, as stored or
\* trimmed, a key of the organization table handed to assign_all_ids.
C5_DedupAppliedBeforeMapping ==
    mPc = "map" =>
        /\ dedupRan <=>
              (apiKey /\ Len(ExtractOrganizationsFromPeople(nPeopleIn)) > 1)
        /\ dedupRan =>
              /\ dPc = "returned"
              /\ org_name_mapping = canonical_mapping
              /\ \A i \in 1..Len(inPeople) : MappingApplied(i)
        /\ Len(inPeople) = Len(nPeopleIn)
        /\ \A i \in 1..Len(inPeople) :
              Truthy(Strip(inPeople[i].organization))
                  => \/ inPeople[i].organization \in DOMAIN inOrgs
                     \/ Strip(inPeople[i].organization) \in DOMAIN inOrgs

\* map_relationships is about to begin in a run whose deduplicator renamed
\* the organization of a person.
C5_Witness ==
    /\ mPc = "map"
    /\ dedupRan
    /\ \E i \in 1..Len(inPeople) :
          /\ inPeople[i].organization # nPeopleIn[i].organization
          /\ inPeople[i].organization \in DOMAIN inOrgs

\* C24: when ID assignment has run, the sector name stored on every
\* organization handed to it is a key of the sector table handed to it and
\* has a sector ID.
C24_OrgSectorRegistered ==
    mPc = "map" =>
        \A k \in DOMAIN inOrgs :
            /\ inOrgs[k].sector \in inSectors
            /\ inOrgs[k].sector \in DOMAIN sector_ids

(***************************************************************************)
(* Phase 2 of the pipeline (main.py, _phase2_ai_enhancement) and the       *)
(* enrichment engine (ai_enhancer.py, ClaudeAIEnhancer).                   *)
(*                                                                         *)
(* Field values: Absent is a key the dict lacks, Blank is a falsy value    *)
(* ("" or None) and 1 is some text.  A URL is Blank or 1.                  *)
(***************************************************************************)

\* The largest Settings.BATCH_SIZE.
MaxBatchSize == 2

Absent == -1
Blank == 0

\* Python truthiness of a field value.
FieldTruthy(v) == v # Blank

\* The people's names.  PagedName may have a Wikipedia page, the other
\* name has none.
PagedName == 1
PersonNames == {1, 2}

\* currentRole of a person is a title (1); the CSV reader stores a string,
\* other callers of enhance_batch may pass a person whose currentRole is None.
RoleNone == -1
\* What phase 1 leaves on the people of one name: wikipedia_extract,
\* wikipedia_url, wikipedia_birth_date (absent keys read as Blank), and the
\* currentRole.
NoPage(role) == [extract |-> Blank, url |-> Blank, birth_date |-> Blank, currentRole |-> role]

PagedProfiles ==
    {NoPage(1),
     [extract |-> 1, url |-> 1, birth_date |-> 1, currentRole |-> 1],
     [extract |-> 1, url |-> Blank, birth_date |-> Blank, currentRole |-> 1],
     [extract |-> 1, url |-> Blank, birth_date |-> 1, currentRole |-> 1],
     [extract |-> 1, url |-> 1, birth_date |-> 1, currentRole |-> RoleNone]}

Profiles ==
    {f \in [PersonNames -> PagedProfiles] :
        \A n \in PersonNames \ {PagedName} : f[n] = NoPage(1)}

\* The names of the CSV rows: rosters of at most two people, and one of
\* three whose first and last rows carry the same name.
Rosters == {<<>>, <<1>>, <<2>>, <<1, 1>>, <<1, 2>>, <<2, 1>>, <<1, 2, 1>>}

\* The tags of the five sub-operations in the order enhance_batch runs them.
Tags == <<"basic", "education", "career", "bio", "organization">>

\* The source citation a sub-operation appends.
Citation(url) == [sourceName |-> "Wikipedia", sourceUrl |-> url, reliability |-> "high"]

\* A sub-operation's result dict: the value of its field, its sources and,
\* for the basic facts, dateOfBirth.
EmptyResult == [dateOfBirth |-> Blank, value |-> Blank, sources |-> <<>>]

\* wikipedia_data.get(name, {}): the record main.py built, or {}.
EmptyWiki == [present |-> FALSE, extract |-> Blank, url |-> Blank, birth_date |-> Blank]

\* The wiki_data dict _phase2_ai_enhancement builds for a batch: an entry
\* for every person of the batch whose wikipedia_extract is truthy.
WikiData(names, prof) ==
    [n \in {x \in names : FieldTruthy(prof[x].extract)} |->
        [present |-> TRUE, extract |-> prof[n].extract,
         url |-> prof[n].url, birth_date |-> prof[n].birth_date]]

\* A sub-operation that sends its request whatever the excerpt.
HasExcerptAlways(wiki) == TRUE

\* "if not wiki: return" and "if not wiki_extract: return": the request is
\* sent only if _get_relevant_text gives text; without chunks that is the
\* extract, truncated.
HasExcerpt(wiki) == wiki.present /\ FieldTruthy(wiki.extract)

\* cache_key = f"{name}_{tag}"
CacheKey(name, tag) == <<name, tag>>

\* A lookup that never finds an entry.
CacheHitNever(c, key) == FALSE

\* "if cache_key in self.cache"
CacheHit(c, key) == key \in DOMAIN c

\* What a generation call can come to: an exception of the transport, text
\* json.loads rejects, a JSON object with an empty value, or one with text.
CallOutcomes == {"transport_error", "unparseable", "empty", "value"}

\* A sub-operation that lets the failure of its request propagate.
FailureEscapesUncaught(outcome) == outcome \in {"transport_error", "unparseable"}

\* "try: ... except Exception as e: logger.warning(...)" around the request:
\* no failure leaves the sub-operation.
FailureEscapes(outcome) == FALSE

\* The result a sub-operation builds on a cache miss.  Only the basic facts
\* copy the birth date, with a citation; the other value is text exactly if
\* the request was sent and answered with text, and then (not for the
\* basic facts) a citation is appended.
SubOpResult(s, wiki, outcome) ==
    LET hasBirth == s = 1 /\ FieldTruthy(wiki.birth_date)
        hasValue == HasExcerpt(wiki) /\ outcome = "value"
    IN  [dateOfBirth |-> IF hasBirth THEN wiki.birth_date ELSE Blank,
         value |-> IF hasValue THEN 1 ELSE Blank,
         sources |-> (IF hasBirth THEN <<Citation(wiki.url)>> ELSE <<>>)
                     \o (IF hasValue /\ s # 1 THEN <<Citation(wiki.url)>> ELSE <<>>)]

\* The "Deduplicate sources by URL" loop of enhance_batch.
DedupeSources(all) ==
    LET F[i \in 0..Len(all)] ==
            IF i = 0 THEN <<>>
            ELSE LET url == all[i].sourceUrl
                     seen_urls == {F[i - 1][k].sourceUrl : k \in 1..Len(F[i - 1])} \ {Blank}
                 IN  IF FieldTruthy(url) /\ url \notin seen_urls THEN Append(F[i - 1], all[i])
                     ELSE IF ~FieldTruthy(url) THEN Append(F[i - 1], all[i])
                     ELSE F[i - 1]
    IN  F[Len(all)]

\* The enhanced dict enhance_batch starts a person with.
NewEnhanced(name) ==
    [name |-> name, dateOfBirth |-> Blank, gender |-> Blank, education |-> Blank,
     careerHistory |-> Blank, bio |-> Blank, organization |-> Blank, sources |-> <<>>]

\* enhanced after stage s has returned result.
WithResult(e, s, result) ==
    IF s = 1 THEN [e EXCEPT !.dateOfBirth = result.dateOfBirth, !.gender = result.value]
    ELSE IF s = 2 THEN [e EXCEPT !.education = result.value]
    ELSE IF s = 3 THEN [e EXCEPT !.careerHistory = result.value]
    ELSE IF s = 4 THEN [e EXCEPT !.bio = result.value]
    ELSE [e EXCEPT !.organization = result.value]

\* A person as the CSV reader and phase 1 leave it: no AI field yet.
OriginalPerson(i, name) ==
    [id |-> i, name |-> name, dateOfBirth |-> Absent, gender |-> Absent,
     education |-> Absent, careerHistory |-> Absent, bio |-> Absent,
     organization |-> Absent, sources |-> <<>>]

\* _merge_person_data: "if field in enhanced and enhanced[field]:
\* merged[field] = enhanced[field]"
MergePersonData(original, e) ==
    LET pick(new, old) == IF FieldTruthy(new) THEN new ELSE old
    IN  [original EXCEPT !.dateOfBirth = pick(e.dateOfBirth, @), !.gender = pick(e.gender, @),
                         !.education = pick(e.education, @),
                         !.careerHistory = pick(e.careerHistory, @),
                         !.bio = pick(e.bio, @), !.organization = pick(e.organization, @),
                         !.sources = IF e.sources # <<>> THEN e.sources ELSE @]

\* A fallback that loses the failed batch.
BatchFallbackDropped(done, batch) == done

\* "except Exception: enhanced_people.extend(batch)"
BatchFallback(done, batch) == done \o batch

\* The i-th person of the roster, and the slice people[i:i + batch_size].
RosterPerson(i) == OriginalPerson(i, roster[i])

BatchEnd == IF bStart + batch_size < Len(roster) THEN bStart + batch_size ELSE Len(roster)

Batch == [k \in 1..(BatchEnd - bStart) |-> RosterPerson(bStart + k)]

\* The person enhance_batch is working on, and its wiki record.
CurrentName == roster[bStart + pIdx]

CurrentWiki == IF CurrentName \in DOMAIN wiki_data THEN wiki_data[CurrentName] ELSE EmptyWiki

\* No sub-operation has run yet for the current person.
NoOp == [name |-> 0, tag |-> "none", cached |-> FALSE, called |-> FALSE,
         kind |-> "none", result |-> EmptyResult]

ResetPerson ==
    /\ enhanced' = NewEnhanced(0)
    /\ all_sources' = <<>>
    /\ stage' = 1
    /\ lastOp' = NoOp
    /\ failedStages' = {}

InitEnhanceIdle ==
    /\ ePc = "idle"
    /\ enhancerOn = FALSE
    /\ roster = <<>>
    /\ profile = [n \in PersonNames |-> NoPage(1)]
    /\ batch_size = 1
    /\ bStart = 0
    /\ wiki_data = EmptyDict
    /\ pIdx = 0
    /\ stage = 1
    /\ enhanced = NewEnhanced(0)
    /\ all_sources = <<>>
    /\ enhanced_results = <<>>
    /\ enhanced_people = <<>>
    /\ cache = EmptyDict
    /\ disk = EmptyDict
    /\ lastOp = NoOp
    /\ failedStages = {}
    /\ failedIds = {}
    /\ restarted = FALSE

\* A first run of the pipeline at the entry of phase 2: the response cache
\* file does not exist yet, the roster and what phase 1 found are any.
InitEnhance ==
    /\ ePc = "batch"
    /\ enhancerOn \in BOOLEAN
    /\ roster \in Rosters
    /\ profile \in Profiles
    /\ batch_size \in 1..MaxBatchSize
    /\ bStart = 0
    /\ wiki_data = EmptyDict
    /\ pIdx = 0
    /\ stage = 1
    /\ enhanced = NewEnhanced(0)
    /\ all_sources = <<>>
    /\ enhanced_results = <<>>
    /\ enhanced_people = <<>>
    /\ cache = EmptyDict
    /\ disk = EmptyDict
    /\ lastOp = NoOp
    /\ failedStages = {}
    /\ failedIds = {}
    /\ restarted = FALSE

RunUnchanged == UNCHANGED <<enhancerOn, roster, profile, batch_size, restarted>>

\* "if not self.ai_enhancer: return people"
SkipEnhancement ==
    /\ ePc = "batch"
    /\ ~enhancerOn
    /\ enhanced_people' = [i \in 1..Len(roster) |-> RosterPerson(i)]
    /\ ePc' = "done"
    /\ UNCHANGED <<bStart, wiki_data, pIdx, stage, enhanced, all_sources, enhanced_results,
                   cache, disk, lastOp, failedStages, failedIds>>
    /\ RunUnchanged
    /\ EnhanceFrame

\* One turn of "for i in range(0, len(people), batch_size)" up to the call
\* of enhance_batch and the start of its first person.
StartBatch ==
    /\ ePc = "batch"
    /\ enhancerOn
    /\ bStart < Len(roster)
    /\ wiki_data' = WikiData({Batch[k].name : k \in 1..Len(Batch)}, profile)
    /\ enhanced_results' = <<>>
    /\ pIdx' = 1
    /\ ResetPerson
    /\ ePc' = "stage"
    /\ UNCHANGED <<bStart, enhanced_people, cache, disk, failedIds>>
    /\ RunUnchanged
    /\ EnhanceFrame

\* The loop of _phase2_ai_enhancement is over: enhanced_people is returned.
FinishPhase ==
    /\ ePc = "batch"
    /\ enhancerOn
    /\ bStart >= Len(roster)
    /\ ePc' = "done"
    /\ UNCHANGED <<bStart, wiki_data, pIdx, stage, enhanced, all_sources, enhanced_results,
                   enhanced_people, cache, disk, lastOp, failedStages, failedIds>>
    /\ RunUnchanged
    /\ EnhanceFrame

\* The sub-operation returned result: enhance_batch stores its value and
\* extends all_sources.
StageReturns(s, result) ==
    /\ enhanced' = WithResult(enhanced, s, result)
    /\ all_sources' = all_sources \o result.sources
    /\ stage' = s + 1
    /\ ePc' = IF s = 5 THEN "finish" ELSE "stage"

\* An exception left the sub-operation: "except Exception as e:
\* logger.error(...)" of enhance_batch, the later stages are not run.
StageRaises(s) ==
    /\ stage' = s + 1
    /\ ePc' = "finish"
    /\ UNCHANGED <<enhanced, all_sources, cache, disk>>

\* One sub-operation for the current person, s-th of the five.
RunStage(s) ==
    LET name == CurrentName
        wiki == CurrentWiki
        key == CacheKey(name, Tags[s])
        was == <<name, Tags[s]>> \in DOMAIN cache
        op(called, kind, result) ==
            [name |-> name, tag |-> Tags[s], cached |-> was, called |-> called,
             kind |-> kind, result |-> result]
    IN  /\ ePc = "stage"
        /\ IF CacheHit(cache, key)
           THEN /\ StageReturns(s, cache[key])
                /\ lastOp' = op(FALSE, "hit", cache[key])
                /\ UNCHANGED <<cache, disk, failedStages>>
           ELSE IF s = 5 /\ wiki.present /\ profile[name].currentRole = RoleNone
           THEN \* current_role.lower() on None, outside the inner try
                /\ StageRaises(s)
                /\ lastOp' = op(FALSE, "raised", EmptyResult)
                /\ UNCHANGED failedStages
           ELSE \E outcome \in IF HasExcerpt(wiki) THEN CallOutcomes ELSE {"no_call"} :
                 /\ failedStages' = IF outcome \in {"transport_error", "unparseable"}
                                    THEN failedStages \cup {s} ELSE failedStages
                 /\ IF FailureEscapes(outcome)
                    THEN /\ StageRaises(s)
                         /\ lastOp' = op(TRUE, outcome, EmptyResult)
                    ELSE LET result == SubOpResult(s, wiki, outcome)
                         IN  /\ StageReturns(s, result)
                             /\ cache' = DictPut(cache, [k \in {key} |-> result])
                             /\ disk' = DictPut(disk, [k \in {key} |-> result])
                             /\ lastOp' = op(HasExcerpt(wiki), outcome, result)
        /\ UNCHANGED <<bStart, wiki_data, pIdx, enhanced_results, enhanced_people, failedIds>>
        /\ RunUnchanged
        /\ EnhanceFrame

\* The five stages of enhance_batch, in its order.
EnhanceBasicInfo ==
    /\ stage = 1
    /\ RunStage(1)

EnhanceEducation ==
    /\ stage = 2
    /\ RunStage(2)

EnhanceCareerHistory ==
    /\ stage = 3
    /\ RunStage(3)

EnhanceBiography ==
    /\ stage = 4
    /\ RunStage(4)

ExtractOrganization ==
    /\ stage = 5
    /\ RunStage(5)

\* After the try of enhance_batch: the citations are deduplicated, the
\* person's result is appended, and the next person or the return follows.
FinishPerson ==
    /\ ePc = "finish"
    /\ enhanced_results' =
           Append(enhanced_results,
                  [enhanced EXCEPT !.name = CurrentName, !.sources = DedupeSources(all_sources)])
    /\ IF pIdx < Len(Batch)
       THEN /\ pIdx' = pIdx + 1
            /\ ePc' = "stage"
       ELSE /\ pIdx' = pIdx
            /\ ePc' = "merge"
    /\ ResetPerson
    /\ UNCHANGED <<bStart, wiki_data, enhanced_people, cache, disk, failedIds>>
    /\ RunUnchanged
    /\ EnhanceFrame

\* enhance_batch returned: "for idx, person in enumerate(batch)" merges each
\* person with its result, or keeps the person if there is no result.
MergeBatch ==
    /\ ePc = "merge"
    /\ enhanced_people' =
           enhanced_people \o
           [k \in 1..Len(Batch) |->
               IF k <= Len(enhanced_results)
               THEN MergePersonData(Batch[k], enhanced_results[k])
               ELSE Batch[k]]
    /\ bStart' = bStart + batch_size
    /\ ePc' = "batch"
    /\ pIdx' = 0
    /\ enhanced_results' = <<>>
    /\ wiki_data' = EmptyDict
    /\ UNCHANGED <<stage, enhanced, all_sources, cache, disk, lastOp, failedStages, failedIds>>
    /\ RunUnchanged
    /\ EnhanceFrame

\* An exception leaves enhance_batch: "except Exception:
\* enhanced_people.extend(batch)", and the loop goes on with the next batch.
BatchFails ==
    /\ ePc \in {"stage", "finish"}
    /\ enhanced_people' = BatchFallback(enhanced_people, Batch)
    /\ failedIds' = failedIds \cup {Batch[k].id : k \in 1..Len(Batch)}
    /\ bStart' = bStart + batch_size
    /\ ePc' = "batch"
    /\ pIdx' = 0
    /\ enhanced_results' = <<>>
    /\ wiki_data' = EmptyDict
    /\ ResetPerson
    /\ UNCHANGED <<cache, disk>>
    /\ RunUnchanged
    /\ EnhanceFrame

\* The process ends, at the end of the phase or by a crash inside it, and
\* the pipeline is run again on the same CSV: ClaudeAIEnhancer() reloads the
\* cache file; phase 1 finds what it found before, or nothing.
Restart ==
    /\ ePc \in {"batch", "stage", "finish", "merge", "done"}
    /\ enhancerOn
    /\ cache' = disk
    /\ profile' \in {profile, [n \in PersonNames |-> NoPage(profile[n].currentRole)]}
    /\ restarted' = TRUE
    /\ ePc' = "batch"
    /\ bStart' = 0
    /\ pIdx' = 0
    /\ wiki_data' = EmptyDict
    /\ enhanced_results' = <<>>
    /\ enhanced_people' = <<>>
    /\ failedIds' = {}
    /\ ResetPerson
    /\ UNCHANGED <<enhancerOn, roster, batch_size, disk>>
    /\ EnhanceFrame

NextEnhance ==
    \/ SkipEnhancement
    \/ StartBatch
    \/ EnhanceBasicInfo
    \/ EnhanceEducation
    \/ EnhanceCareerHistory
    \/ EnhanceBiography
    \/ ExtractOrganization
    \/ FinishPerson
    \/ MergeBatch
    \/ BatchFails
    \/ FinishPhase
    \/ Restart

(***************************************************************************)
(* Properties of the enrichment engine and of phase 2                      *)
(***************************************************************************)

\* A sub-operation has just run for the current person on an empty excerpt.
RanOnEmptyExcerpt == lastOp.kind # "none" /\ CurrentWiki.extract = Blank

ReturnedNothing ==
    /\ lastOp.result.dateOfBirth = Blank
    /\ lastOp.result.value = Blank
    /\ lastOp.result.sources = <<>>

\* C6 as stated: whatever the history of the engine, a sub-operation that
\* runs on an empty excerpt returns an empty value and no citation.
C6_Original_EmptyExcerptAnyHistory == RanOnEmptyExcerpt => ReturnedNothing

\* C6: a sub-operation that runs on an empty excerpt and finds no result
\* cached under the person's name and its tag returns an empty value and
\* appends no citation; with a cached result it returns that result.
C6_EmptyExcerptUncached ==
    /\ (RanOnEmptyExcerpt /\ ~lastOp.cached) => ReturnedNothing
    /\ (RanOnEmptyExcerpt /\ lastOp.cached) => lastOp.result = cache[<<lastOp.name, lastOp.tag>>]

C6_Witness ==
    /\ RanOnEmptyExcerpt
    /\ ~lastOp.cached
    /\ lastOp.tag = "organization"
    /\ enhanced = NewEnhanced(0)
    /\ all_sources = <<>>

Min(a, b) == IF a < b THEN a ELSE b

AiFieldsOf(p) == {p.dateOfBirth, p.gender, p.education, p.careerHistory, p.bio, p.organization}

\* C7: whatever fails, phase 2 has appended one record per person of the
\* batches done so far, in input order, and returns one per input person; the
\* people of a failed batch are the original records, and no AI field of any
\* record holds an empty value in place of the original.
C7_OneRecordPerPerson ==
    /\ Len(enhanced_people) = IF ePc = "done" THEN Len(roster) ELSE Min(bStart, Len(roster))
    /\ \A i \in 1..Len(enhanced_people) :
        /\ enhanced_people[i].id = i
        /\ enhanced_people[i].name = roster[i]
        /\ i \in failedIds => enhanced_people[i] = RosterPerson(i)
        /\ Blank \notin AiFieldsOf(enhanced_people[i])

C7_Witness ==
    /\ ePc = "done"
    /\ Len(roster) = 2
    /\ failedIds = {1}
    /\ enhanced_people[1] = RosterPerson(1)
    /\ enhanced_people[2].bio = 1
    /\ enhanced_people[2].organization = Absent

\* The field of enhanced that stage s fills.
FieldOf(e, s) ==
    IF s = 1 THEN e.gender
    ELSE IF s = 2 THEN e.education
    ELSE IF s = 3 THEN e.careerHistory
    ELSE IF s = 4 THEN e.bio
    ELSE e.organization

\* C8: the five sub-operations run in the fixed order and all five are
\* attempted; a stage whose generation call failed leaves its field empty,
\* and every stage's field is the value that stage's own sub-operation
\* returned, whatever happened in the stages before it.
C8_StagesIndependent ==
    /\ ePc = "stage" => lastOp.tag = IF stage = 1 THEN "none" ELSE Tags[stage - 1]
    /\ ePc = "finish" => stage = 6 /\ lastOp.tag = Tags[5]
    /\ \A s \in failedStages : s < stage /\ FieldOf(enhanced, s) = Blank
    /\ ePc \in {"stage", "finish"} =>
        \A s \in 1..(stage - 1) :
            <<CurrentName, Tags[s]>> \in DOMAIN cache =>
                FieldOf(enhanced, s) = cache[<<CurrentName, Tags[s]>>].value

C8_Witness ==
    /\ ePc = "finish"
    /\ failedStages = {2, 4}
    /\ enhanced.gender = 1
    /\ enhanced.education = Blank
    /\ enhanced.careerHistory = 1
    /\ enhanced.bio = Blank
    /\ enhanced.organization = 1

\* The last sub-operation's result is the cache entry of its name and tag,
\* and it sent no request if that entry was there before it ran.
LastOpCached ==
    lastOp.kind \notin {"none", "raised"} =>
        /\ <<lastOp.name, lastOp.tag>> \in DOMAIN cache
        /\ cache[<<lastOp.name, lastOp.tag>>] = lastOp.result
        /\ lastOp.cached => ~lastOp.called

C23_OneCitationPerExtraction ==
    lastOp.kind \in CallOutcomes \cup {"no_call"} =>
        Len(lastOp.result.sources) =
            IF FieldTruthy(lastOp.result.dateOfBirth) \/ FieldTruthy(lastOp.result.value)
            THEN 1 ELSE 0

\* C10 as stated: in every citation list enhance_batch returns, no two
\* citations share a non-empty URL and at most one citation has no URL.
C10_AtMostOneCitationWithoutUrl ==
    \A r \in 1..Len(enhanced_results) :
        LET src == enhanced_results[r].sources
        IN  /\ \A i, j \in 1..Len(src) :
                (i # j /\ src[i].sourceUrl # Blank) => src[i].sourceUrl # src[j].sourceUrl
            /\ Cardinality({i \in 1..Len(src) : src[i].sourceUrl = Blank}) <= 1

(***************************************************************************)
(* WikipediaExtractor (wikipedia_extractor.py): fetch_person_data with its *)
(* cache, the two retried lookups and the cache file.                      *)
(***************************************************************************)

\* @retry_with_backoff(max_retries=3, ...) on _search_person and
\* _get_page_summary.
max_retries == 3

\* A name of whitespace only: a string that is not empty, so "if not name"
\* lets it pass like any other name.
BlankName == 2

\* The names fetch_person_data is called with; 0 is the empty name.
FetchNames == {0, 1, 2}

\* The cached negative result (None) and the records _extract_bio_data
\* builds.  A record and None are told apart by found.
NotFound == [found |-> FALSE, extract |-> Blank, url |-> Blank, birth_date |-> Blank]

BioRecords ==
    {[found |-> TRUE, extract |-> 1, url |-> 1, birth_date |-> 1],
     [found |-> TRUE, extract |-> 1, url |-> Blank, birth_date |-> Blank]}

\* A lookup that never finds the name in the cache.
WikiCacheHitNever(c, name) == FALSE

\* "if name in self.cache"
WikiCacheHit(c, name) == name \in DOMAIN c

\* A fetch that records a negative result when the retries are used up.
AfterExhaustedNegative(c, name) == DictPut(c, [k \in {name} |-> NotFound])

\* "except Exception as e: logger.error(...); return None": the exception
\* of the last attempt reaches fetch_person_data, which leaves the cache.
AfterExhausted(c, name) == c

\* A save that writes nothing.
WriteCacheFileSkipped(file, c) == file

\* _save_cache when open and json.dump succeed: the file holds the cache.
WriteCacheFile(file, c) == c

\* What one HTTP request can come to: requests raises a RequestException
\* (raise_for_status included), something else raises, or a reply arrives.
SearchReplies == {"transport_error", "other_error", "no_results", "title"}
PageReplies == {"info_transport_error", "no_pages", "parse_transport_error",
                "no_parse", "page"}

\* The requests one attempt of _get_page_summary sends before it ends.
PageRequests(reply) == IF reply \in {"info_transport_error", "no_pages"} THEN 1 ELSE 2

InitWikiIdle ==
    /\ wPc = "idle"
    /\ wName = 0
    /\ wAttempt = 0
    /\ wCache = EmptyDict
    /\ wDisk = EmptyDict
    /\ wResult = NotFound
    /\ wRequests = 0
    /\ wAdmissions = 0
    /\ wExhausted = FALSE
    /\ wLastReply = "none"
    /\ wLastSave = "none"

\* A new extractor on a machine without a cache file.
InitWiki == InitWikiIdle

\* fetch_person_data returns value.
WikiReturns(value) ==
    /\ wPc' = "returned"
    /\ wResult' = value
    /\ wAttempt' = 0

\* "self.cache[name] = value; self._save_cache()": the write of the file
\* succeeds or fails, and a failure is logged only.
WikiCacheAndSave(value) ==
    /\ wCache' = DictPut(wCache, [k \in {wName} |-> value])
    /\ \E ok \in BOOLEAN :
        /\ wDisk' = IF ok THEN WriteCacheFile(wDisk, wCache') ELSE wDisk
        /\ wLastSave' = IF ok THEN "ok" ELSE "failed"

\* fetch_person_data(name) up to its first lookup: the empty name and the
\* cache hit return at once.
FetchPersonData ==
    /\ wPc \in {"idle", "returned"}
    /\ \E name \in FetchNames :
        /\ wName' = name
        /\ IF name = 0
           THEN WikiReturns(NotFound)
           ELSE IF WikiCacheHit(wCache, name)
           THEN WikiReturns(wCache[name])
           ELSE /\ wPc' = "search"
                /\ wAttempt' = 0
                /\ wResult' = NotFound
    /\ wRequests' = 0
    /\ wAdmissions' = 0
    /\ wExhausted' = FALSE
    /\ wLastReply' = "none"
    /\ UNCHANGED <<wCache, wDisk, wLastSave>>
    /\ WikiFrame

\* One attempt of the retried _search_person: the limiter admits the
\* request, the request is sent.
SearchPerson ==
    /\ wPc = "search"
    /\ wRequests' = wRequests + 1
    /\ wAdmissions' = wAdmissions + 1
    /\ \E reply \in SearchReplies :
        /\ wLastReply' = reply
        /\ IF reply = "transport_error"
           THEN IF wAttempt < max_retries
                THEN /\ wAttempt' = wAttempt + 1
                     /\ UNCHANGED <<wPc, wResult, wExhausted, wCache, wDisk, wLastSave>>
                ELSE /\ WikiReturns(NotFound)
                     /\ wExhausted' = TRUE
                     /\ wCache' = AfterExhausted(wCache, wName)
                     /\ UNCHANGED <<wDisk, wLastSave>>
           ELSE IF reply = "other_error"
           THEN /\ WikiReturns(NotFound)
                /\ UNCHANGED <<wExhausted, wCache, wDisk, wLastSave>>
           ELSE IF reply = "no_results"
           THEN /\ WikiReturns(NotFound)
                /\ WikiCacheAndSave(NotFound)
                /\ UNCHANGED wExhausted
           ELSE /\ wPc' = "page"
                /\ wAttempt' = 0
                /\ UNCHANGED <<wResult, wExhausted, wCache, wDisk, wLastSave>>
    /\ UNCHANGED wName
    /\ WikiFrame

\* One attempt of the retried _get_page_summary, and on a page the rest of
\* fetch_person_data.
GetPageSummary ==
    /\ wPc = "page"
    /\ \E reply \in PageReplies :
        /\ wLastReply' = reply
        /\ wRequests' = wRequests + PageRequests(reply)
        /\ wAdmissions' = wAdmissions + PageRequests(reply)
        /\ IF reply \in {"info_transport_error", "parse_transport_error"}
           THEN IF wAttempt < max_retries
                THEN /\ wAttempt' = wAttempt + 1
                     /\ UNCHANGED <<wPc, wResult, wExhausted, wCache, wDisk, wLastSave>>
                ELSE /\ WikiReturns(NotFound)
                     /\ wExhausted' = TRUE
                     /\ wCache' = AfterExhausted(wCache, wName)
                     /\ UNCHANGED <<wDisk, wLastSave>>
           ELSE IF reply \in {"no_pages", "no_parse"}
           THEN /\ WikiReturns(NotFound)
                /\ WikiCacheAndSave(NotFound)
                /\ UNCHANGED wExhausted
           ELSE \E record \in BioRecords :
                /\ WikiReturns(record)
                /\ WikiCacheAndSave(record)
                /\ UNCHANGED wExhausted
    /\ UNCHANGED wName
    /\ WikiFrame

\* The process stops between two calls and a new extractor is built:
\* _load_cache reads the file.
WikiRestart ==
    /\ wPc \in {"idle", "returned"}
    /\ wCache' = wDisk
    /\ wLastSave' = "none"
    /\ wPc' = "idle"
    /\ wName' = 0
    /\ wAttempt' = 0
    /\ wResult' = NotFound
    /\ wRequests' = 0
    /\ wAdmissions' = 0
    /\ wExhausted' = FALSE
    /\ wLastReply' = "none"
    /\ UNCHANGED wDisk
    /\ WikiFrame

NextWiki ==
    \/ FetchPersonData
    \/ SearchPerson
    \/ GetPageSummary
    \/ WikiRestart

(***************************************************************************)
(* Properties of the biography fetcher                                     *)
(***************************************************************************)

\* A step that is the entry of fetch_person_data with a name the cache holds.
FetchOfCachedName ==
    /\ wPc \in {"idle", "returned"}
    /\ wPc' # "idle"
    /\ wName' # 0
    /\ wName' \in DOMAIN wCache

\* C11: fetch_person_data on a name the cache holds, a record or a negative
\* result, returns the cached value in that step, sends no request, passes
\* the rate limiter not once and leaves the cache and its file as they were.
C11_CacheHitReturnsAtOnce ==
    [][FetchOfCachedName =>
          /\ wPc' = "returned"
          /\ wResult' = wCache[wName']
          /\ wRequests' = 0
          /\ wAdmissions' = 0
          /\ wCache' = wCache
          /\ wDisk' = wDisk]_vars

C11_Witness ==
    /\ wPc = "returned"
    /\ wName \in DOMAIN wCache
    /\ wRequests = 0
    /\ wResult = NotFound
    /\ \E n \in DOMAIN wCache : wCache[n].found

\* The replies after which fetch_person_data caches a negative result: the
\* search answered without a hit, or the page lookup answered without a page.
AbsenceReplies == {"no_results", "no_pages", "no_parse"}

C28_EmptyOrBlankNameNoCall ==
    wName \in {0, BlankName} =>
        /\ wPc \in {"idle", "returned"}
        /\ wRequests = 0
        /\ wName \notin DOMAIN wCache
        /\ wPc = "returned" => wResult = NotFound

MaxClock == 4
MaxAcquires == 4

LimiterThreads == {1, 2}

\* The arguments RateLimiter is constructed with; __init__ checks nothing.
MaxCallsValues == {-1, 0, 1, 2}
PeriodValues == {-1, 0, 1, 2}

NoThread == 0

\* while self.calls and self.calls[0] < now - self.period: self.calls.popleft()
RECURSIVE PopOld(_, _)
PopOld(c, now) ==
    IF c # <<>> /\ Head(c) < now - period THEN PopOld(Tail(c), now) ELSE c

InitLimiterIdle ==
    /\ max_calls = 1
    /\ period = 1
    /\ calls = <<>>
    /\ lock = NoThread
    /\ rlPc = [t \in LimiterThreads |-> "idle"]
    /\ rlWake = [t \in LimiterThreads |-> 0]
    /\ clock = 0
    /\ rlAdmitted = <<>>
    /\ rlRaised = 0

\* RateLimiter(max_calls, period)
InitLimiter ==
    /\ max_calls \in MaxCallsValues
    /\ period \in PeriodValues
    /\ calls = <<>>
    /\ lock = NoThread
    /\ rlPc = [t \in LimiterThreads |-> "idle"]
    /\ rlWake = [t \in LimiterThreads |-> 0]
    /\ clock = 0
    /\ rlAdmitted = <<>>
    /\ rlRaised = 0

\* with self.lock: (entry)
AcquireLock(t) ==
    /\ rlPc[t] = "idle"
    /\ lock = NoThread
    /\ Len(rlAdmitted) + rlRaised < MaxAcquires
    /\ lock' = t
    /\ rlPc' = [rlPc EXCEPT ![t] = "locked"]
    /\ UNCHANGED <<max_calls, period, calls, rlWake, clock, rlAdmitted, rlRaised>>
    /\ LimiterFrame

\* Lines 48-59: read the clock, drop the old calls, decide whether to sleep.
\* self.calls[0] on an empty deque raises IndexError, which leaves the with
\* block and releases the lock.
CheckLimit(t) ==
    /\ rlPc[t] = "locked"
    /\ LET now == clock
           c == PopOld(calls, now)
       IN /\ calls' = c
          /\ IF Len(c) >= max_calls
             THEN IF c = <<>>
                  THEN /\ rlPc' = [rlPc EXCEPT ![t] = "idle"]
                       /\ lock' = NoThread
                       /\ rlRaised' = rlRaised + 1
                       /\ rlWake' = rlWake
                  ELSE LET sleep_time == period - (now - Head(c))
                       IN /\ IF sleep_time > 0
                             THEN /\ rlPc' = [rlPc EXCEPT ![t] = "sleeping"]
                                  /\ rlWake' = [rlWake EXCEPT ![t] = now + sleep_time]
                             ELSE /\ rlPc' = [rlPc EXCEPT ![t] = "record"]
                                  /\ rlWake' = rlWake
                          /\ UNCHANGED <<lock, rlRaised>>
             ELSE /\ rlPc' = [rlPc EXCEPT ![t] = "record"]
                  /\ UNCHANGED <<lock, rlRaised, rlWake>>
    /\ UNCHANGED <<max_calls, period, clock, rlAdmitted>>
    /\ LimiterFrame

\* Lines 59-63: time.sleep returns, the clock is read again, old calls go.
AfterSleep(t) ==
    /\ rlPc[t] = "sleeping"
    /\ clock >= rlWake[t]
    /\ calls' = PopOld(calls, clock)
    /\ rlPc' = [rlPc EXCEPT ![t] = "record"]
    /\ UNCHANGED <<max_calls, period, lock, rlWake, clock, rlAdmitted, rlRaised>>
    /\ LimiterFrame

\* Line 66: self.calls.append(time.time()); the with block ends.
RecordCall(t) ==
    /\ rlPc[t] = "record"
    /\ calls' = Append(calls, clock)
    /\ rlAdmitted' = Append(rlAdmitted, clock)
    /\ lock' = NoThread
    /\ rlPc' = [rlPc EXCEPT ![t] = "idle"]
    /\ UNCHANGED <<max_calls, period, rlWake, clock, rlRaised>>
    /\ LimiterFrame

\* The clock moves on to its next value.
Tick ==
    /\ clock < MaxClock
    /\ clock' = clock + 1
    /\ UNCHANGED <<max_calls, period, calls, lock, rlPc, rlWake, rlAdmitted, rlRaised>>
    /\ LimiterFrame

ThreadAcquires == \E t \in LimiterThreads : AcquireLock(t)
ThreadChecks == \E t \in LimiterThreads : CheckLimit(t)
ThreadWakes == \E t \in LimiterThreads : AfterSleep(t)
ThreadRecords == \E t \in LimiterThreads : RecordCall(t)

NextLimiter == ThreadAcquires \/ ThreadChecks \/ ThreadWakes \/ ThreadRecords \/ Tick

(***************************************************************************)
(* Properties of the rate limiter                                          *)
(***************************************************************************)

\* The admissions whose timestamp lies in the window (t - period, t].
AdmittedInWindow(t) ==
    {i \in 1..Len(rlAdmitted) : rlAdmitted[i] > t - period /\ rlAdmitted[i] <= t}

\* A thread inside wait_if_needed holds the lock.
InsideHoldsLock == \A t \in LimiterThreads : rlPc[t] # "idle" => lock = t

\* Every admission left one timestamp in the history, in order of admission.
OneTimestampEach ==
    \E k \in 0..Len(rlAdmitted) : calls = SubSeq(rlAdmitted, k + 1, Len(rlAdmitted))

\* C14: with max_calls >= 1 and period > 0, a thread inside wait_if_needed
\* holds the lock, every admission has recorded one timestamp, and no window
\* of length period ending at any time holds more than max_calls admissions.
C14_WindowNeverExceeded ==
    (max_calls >= 1 /\ period > 0) =>
        /\ InsideHoldsLock
        /\ OneTimestampEach
        /\ \A t \in 0..clock : Cardinality(AdmittedInWindow(t)) <= max_calls

\* C17: a limiter built with period <= 0 or max_calls <= 0 admits no call.
C17_MisconfiguredAdmitsNothing ==
    (max_calls <= 0 \/ period <= 0) => rlAdmitted = <<>>

(***************************************************************************)
(* Retry policy (utils/retry.py)                                           *)
(*                                                                         *)
(* A wrapped operation is called through the wrapper retry_with_backoff    *)
(* builds.  Each invocation of the operation returns, or raises an         *)
(* exception of one of the kinds of AllExceptions.  Delays are rationals   *)
(* <<numerator, denominator>>.                                             *)
(***************************************************************************)

MaxRetryCount == 3

\* Kinds of Exception the operation may raise: requests.RequestException, a
\* programming error (TypeError, KeyError, ...), a validation failure
\* (ValueError, json.JSONDecodeError).
AllExceptions == {"transport", "programming", "validation"}

Outcomes == {"ok"} \cup AllExceptions

retry_with_backoff(n, d, f, ex) ==
    [max_retries |-> n, initial_delay |-> d, backoff_factor |-> f, exceptions |-> ex]

\* exceptions=(Exception,): every kind the operation may raise.
retry_on_rate_limit(n, d) == retry_with_backoff(n, d, <<3, 2>>, AllExceptions)

\* The decorators of the repository: the one of the two lookups of the
\* biography fetcher, the defaults of retry_with_backoff, and
\* retry_on_rate_limit, each for every retry count of 0..MaxRetryCount.
Policies ==
    {retry_with_backoff(n, <<1, 1>>, <<2, 1>>, {"transport"}) : n \in 0..MaxRetryCount}
        \cup {retry_with_backoff(n, <<1, 1>>, <<2, 1>>, AllExceptions) : n \in 0..MaxRetryCount}
        \cup {retry_on_rate_limit(n, <<60, 1>>) : n \in 0..MaxRetryCount}

Times(a, b) == <<a[1] * b[1], a[2] * b[2]>>

\* except exceptions as e
Caught(kind, ex) == kind \in ex

\* if attempt < max_retries
RetriesLeftAlways(a, n) == a <= n
RetriesLeft(a, n) == a < n

InitRetryIdle ==
    /\ policy = retry_with_backoff(0, <<1, 1>>, <<2, 1>>, {"transport"})
    /\ rtPc = "idle"
    /\ attempt = 0
    /\ delay = <<1, 1>>
    /\ last_exception = "none"
    /\ rtLog = <<>>
    /\ rtSleeps = <<>>
    /\ rtRaised = "none"

InitRetry ==
    /\ policy \in Policies
    /\ rtPc = "idle"
    /\ attempt = 0
    /\ delay = policy.initial_delay
    /\ last_exception = "none"
    /\ rtLog = <<>>
    /\ rtSleeps = <<>>
    /\ rtRaised = "none"

\* wrapper(*args, **kwargs), lines 34-36.
CallWrapper ==
    /\ rtPc \in {"idle", "returned", "raised"}
    /\ rtPc' = "call"
    /\ attempt' = 0
    /\ delay' = policy.initial_delay
    /\ last_exception' = "none"
    /\ rtLog' = <<>>
    /\ rtSleeps' = <<>>
    /\ rtRaised' = "none"
    /\ UNCHANGED policy
    /\ RetryFrame

\* Line 40: func returns, the wrapper returns its value.
InvokeReturns ==
    /\ rtPc = "call"
    /\ rtLog' = Append(rtLog, "ok")
    /\ rtPc' = "returned"
    /\ UNCHANGED <<policy, attempt, delay, last_exception, rtSleeps, rtRaised>>
    /\ RetryFrame

\* Lines 41-50: func raises a caught exception with retries left; the
\* wrapper is about to sleep.
InvokeFailsRetried ==
    /\ rtPc = "call"
    /\ \E kind \in AllExceptions :
        /\ Caught(kind, policy.exceptions)
        /\ RetriesLeft(attempt, policy.max_retries)
        /\ rtLog' = Append(rtLog, kind)
        /\ last_exception' = kind
    /\ rtPc' = "sleep"
    /\ UNCHANGED <<policy, attempt, delay, rtSleeps, rtRaised>>
    /\ RetryFrame

\* Lines 49-50 and the next turn of the loop.
BackoffSleep ==
    /\ rtPc = "sleep"
    /\ rtSleeps' = Append(rtSleeps, delay)
    /\ delay' = Times(delay, policy.backoff_factor)
    /\ attempt' = attempt + 1
    /\ rtPc' = "call"
    /\ UNCHANGED <<policy, last_exception, rtLog, rtRaised>>
    /\ RetryFrame

\* Lines 41-42, 51-57: func raises a caught exception on the last turn of
\* the loop; the loop ends and last_exception is raised.
InvokeFailsLast ==
    /\ rtPc = "call"
    /\ \E kind \in AllExceptions :
        /\ Caught(kind, policy.exceptions)
        /\ ~RetriesLeft(attempt, policy.max_retries)
        /\ rtLog' = Append(rtLog, kind)
        /\ last_exception' = kind
        /\ rtRaised' = kind
    /\ rtPc' = "raised"
    /\ UNCHANGED <<policy, attempt, delay, rtSleeps>>
    /\ RetryFrame

\* func raises an exception the except clause does not name: it leaves the
\* wrapper.
InvokeFailsUncaught ==
    /\ rtPc = "call"
    /\ \E kind \in AllExceptions :
        /\ ~Caught(kind, policy.exceptions)
        /\ rtLog' = Append(rtLog, kind)
        /\ rtRaised' = kind
    /\ rtPc' = "raised"
    /\ UNCHANGED <<policy, attempt, delay, last_exception, rtSleeps>>
    /\ RetryFrame

NextRetry ==
    \/ CallWrapper
    \/ InvokeReturns
    \/ InvokeFailsRetried
    \/ BackoffSleep
    \/ InvokeFailsLast
    \/ InvokeFailsUncaught

(***************************************************************************)
(* Properties of the retry policy                                          *)
(***************************************************************************)

Last(s) == s[Len(s)]

Invocations == Len(rtLog)

AllRetryableFailures == \A i \in 1..Len(rtLog) : rtLog[i] \in policy.exceptions

\* C15: with max_retries = n >= 0 the operation is invoked at most n + 1
\* times; the wrapper returns exactly when an invocation succeeded, which is
\* then the last one; and after n + 1 invocations that all failed with a
\* retryable failure the wrapper has raised the failure of the last one.
C15_BoundedAttempts ==
    /\ Invocations <= policy.max_retries + 1
    /\ Len(rtSleeps) <= policy.max_retries
    /\ \A i \in 1..Len(rtLog) : rtLog[i] = "ok" => (i = Len(rtLog) /\ rtPc = "returned")
    /\ rtPc = "returned" => Last(rtLog) = "ok"
    /\ (Invocations = policy.max_retries + 1 /\ AllRetryableFailures) =>
           /\ rtPc = "raised"
           /\ rtRaised = Last(rtLog)
    /\ (rtPc = "raised" /\ AllRetryableFailures) => Invocations = policy.max_retries + 1

C15_Witness ==
    /\ rtPc = "raised"
    /\ policy.max_retries = 2
    /\ rtLog = <<"transport", "validation", "programming">>
    /\ rtRaised = "programming"
    /\ Len(rtSleeps) = 2

\* C16: a programming error or a validation failure raised by the operation
\* leaves the wrapper at once: it is the last invocation, it is raised to
\* the caller, and no backoff sleep has followed a failure of these kinds.
C16_ProgrammingErrorsNotRetried ==
    \A i \in 1..Len(rtLog) :
        rtLog[i] \in {"programming", "validation"} =>
            /\ i = Len(rtLog)
            /\ rtPc = "raised"
            /\ rtRaised = rtLog[i]
            /\ Len(rtSleeps) = i - 1

(***************************************************************************)
(* A RelationshipMapper that is used for more than one entity set          *)
(***************************************************************************)

\* The organization dicts of a further call: any of the names, no sector
\* and no parent.
FurtherOrgDicts ==
    UNION {[S -> [sector : {Null}, parentOrganization : {Null}]] :
              S \in SUBSET MapperOrgNames(MaxMapped)}

\* The caller, done with one entity set, is about to call assign_all_ids of
\* the same mapper with another organization dict; the tables of the mapper
\* stay as the earlier calls left them.
AssignIdsAgain ==
    /\ mPc = "done"
    /\ inOrgs' \in FurtherOrgDicts
    /\ inPeople' = <<>>
    /\ people' = <<>>
    /\ organizations' = <<>>
    /\ parties' = <<>>
    /\ sectors' = <<>>
    /\ errors' = <<>>
    /\ vOrg' = 0
    /\ vCurrent' = Null
    /\ vVisited' = {}
    /\ vIter' = 0
    /\ mPc' = "assign"
    /\ UNCHANGED <<inParties, inSectors, organization_ids, party_ids, sector_ids,
                   id_to_organization, id_to_party, id_to_sector>>
    /\ MapperFrame

NextRemap ==
    \/ AssignAllIds
    \/ MapRelationships
    \/ ValidateReferences
    \/ WalkEnd
    \/ WalkCycleFound
    \/ WalkFollowParent
    \/ AssignIdsAgain

\* Every entry of the table is an entry of the table after the step.
EntriesKept(table, after) ==
    \A k \in DOMAIN table : k \in DOMAIN after /\ after[k] = table[k]

IdFields(table) == [i \in 1..Len(table) |-> table[i].id]

\* C19: no step of the mapper changes the ID a name has been given or the
\* name an ID has been given, and map_relationships and validate_references
\* leave the id field of every entity as it is.
C19_IdsNeverReassigned ==
    [][/\ EntriesKept(organization_ids, organization_ids')
       /\ EntriesKept(party_ids, party_ids')
       /\ EntriesKept(sector_ids, sector_ids')
       /\ EntriesKept(id_to_organization, id_to_organization')
       /\ EntriesKept(id_to_party, id_to_party')
       /\ EntriesKept(id_to_sector, id_to_sector')
       /\ mPc \in {"map", "validate", "walk"} =>
             /\ IdFields(people') = IdFields(people)
             /\ IdFields(organizations') = IdFields(organizations)
             /\ IdFields(parties') = IdFields(parties)
             /\ IdFields(sectors') = IdFields(sectors)]_vars

(***************************************************************************)
(* Phase 4 of the pipeline (main.py, _phase4_validation_export) and the    *)
(* SchemaValidator                                                         *)
(*                                                                         *)
(* A field is Blank (None, '' or missing) or a positive number standing    *)
(* for a text; a date of birth is 1 (a well-formed date) or 2 (text that   *)
(* is no date); a reference is Blank, the index of a row of the            *)
(* organization table (its ID), or DanglingRef.  Warnings and statistics   *)
(* of the report are left out.                                             *)
(***************************************************************************)

\* The most organizations phase 4 is given.
MaxP4Orgs == 2

\* An ID that no row of the organization table carries.
DanglingRef == 9

TableNames == <<"people", "organizations", "parties", "sectors">>

P4PersonRows ==
    [name : {Blank, 1}, dateOfBirth : {Blank, 1, 2}, organization : {Blank, 1, DanglingRef}]

P4OrgRows(n) == [name : {1}, parentOrganization : {Blank, DanglingRef} \cup (1..n)]

\* The entity sets phase 3 may hand over: no person or one, up to MaxP4Orgs
\* organizations, no party or one, no sector.
P4Entities ==
    UNION {[people : {<<>>} \cup {<<p>> : p \in P4PersonRows},
            organizations : [1..n -> P4OrgRows(n)],
            parties : {<<>>, <<[name |-> 1]>>, <<[name |-> Blank]>>},
            sectors : {<<>>}] : n \in 0..MaxP4Orgs}

\* _is_valid_date
IsValidDate(d) == d = 1

\* _validate_people: the errors it appends.
ValidatePeople(ps) ==
    LET F[i \in 0..Len(ps)] ==
            IF i = 0 THEN <<>>
            ELSE F[i - 1]
                 \o (IF ~FieldTruthy(ps[i].name)
                     THEN <<<<"missing_field", "people", i>>>> ELSE <<>>)
                 \o (IF FieldTruthy(ps[i].dateOfBirth) /\ ~IsValidDate(ps[i].dateOfBirth)
                     THEN <<<<"invalid_date", "people", i>>>> ELSE <<>>)
    IN  F[Len(ps)]

\* _validate_organizations, _validate_parties, _validate_sectors: the errors
\* for a missing name.
ValidateNamed(table, rows) ==
    LET F[i \in 0..Len(rows)] ==
            IF i = 0 THEN <<>>
            ELSE F[i - 1]
                 \o (IF ~FieldTruthy(rows[i].name)
                     THEN <<<<"missing_field", table, i>>>> ELSE <<>>)
    IN  F[Len(rows)]

\* _validate_references: the two loops over people and organizations.
ValidateRefs(ps, orgs) ==
    LET org_ids == 1..Len(orgs)
        P[i \in 0..Len(ps)] ==
            IF i = 0 THEN <<>>
            ELSE P[i - 1]
                 \o (IF FieldTruthy(ps[i].organization) /\ ps[i].organization \notin org_ids
                     THEN <<<<"dangling", "people", i>>>> ELSE <<>>)
        O[i \in 0..Len(orgs)] ==
            IF i = 0 THEN <<>>
            ELSE O[i - 1]
                 \o (IF FieldTruthy(orgs[i].parentOrganization)
                        /\ orgs[i].parentOrganization \notin org_ids
                     THEN <<<<"dangling", "organizations", i>>>> ELSE <<>>)
    IN  P[Len(ps)] \o O[Len(orgs)]

RECURSIVE ParentChainLoops(_, _, _)
\* The while loop of _check_circular_org_references: TRUE if it meets an
\* ID it has visited.
ParentChainLoops(orgs, current, visited) ==
    IF ~FieldTruthy(current) THEN FALSE
    ELSE IF current \in visited THEN TRUE
    ELSE IF current \notin 1..Len(orgs) THEN FALSE
    ELSE ParentChainLoops(orgs, orgs[current].parentOrganization, visited \cup {current})

\* _check_circular_org_references
CheckCircular(orgs) ==
    LET F[i \in 0..Len(orgs)] ==
            IF i = 0 THEN <<>>
            ELSE F[i - 1]
                 \o (IF ParentChainLoops(orgs, i, {})
                     THEN <<<<"circular", "organizations", i>>>> ELSE <<>>)
    IN  F[Len(orgs)]

\* validate_all: the report.
ValidationReport(e) ==
    LET errs == ValidatePeople(e.people)
                \o ValidateNamed("organizations", e.organizations)
                \o ValidateNamed("parties", e.parties)
                \o ValidateNamed("sectors", e.sectors)
                \o ValidateRefs(e.people, e.organizations)
                \o CheckCircular(e.organizations)
    IN  [errors |-> errs, passed |-> errs = <<>>]

EmptyReport == [errors |-> <<>>, passed |-> TRUE]

\* A phase 4 that gives up when the report holds errors.
OnValidationErrorsAbort(errs) == IF errs # <<>> THEN "raise" ELSE "continue"

\* "if validation_report['errors']: logger.error(...)": the errors are
\* logged and the phase goes on.
OnValidationErrors(errs) == "continue"

InitPhase4Idle ==
    /\ p4Pc = "idle"
    /\ entities = [people |-> <<>>, organizations |-> <<>>, parties |-> <<>>, sectors |-> <<>>]
    /\ validation_report = EmptyReport
    /\ report_file = [written |-> FALSE, content |-> EmptyReport]
    /\ output_files = <<>>
    /\ csv_rows = <<>>
    /\ summary = [written |-> FALSE, validation_passed |-> TRUE, error_count |-> 0]
    /\ p4IoError = FALSE

\* run() has reached phase 4 with the entities of phase 3.
InitPhase4 ==
    /\ p4Pc = "validate"
    /\ entities \in P4Entities
    /\ validation_report = EmptyReport
    /\ report_file = [written |-> FALSE, content |-> EmptyReport]
    /\ output_files = <<>>
    /\ csv_rows = <<>>
    /\ summary = [written |-> FALSE, validation_passed |-> TRUE, error_count |-> 0]
    /\ p4IoError = FALSE

\* Step 4.1: validate_all and the logging of its result.
ValidateAll ==
    /\ p4Pc = "validate"
    /\ validation_report' = ValidationReport(entities)
    /\ p4Pc' = IF OnValidationErrors(validation_report'.errors) = "continue"
               THEN "report" ELSE "raised"
    /\ UNCHANGED <<entities, report_file, output_files, csv_rows, summary, p4IoError>>
    /\ Phase4Frame

\* self.validator.save_report(validation_report)
SaveReport ==
    /\ p4Pc = "report"
    /\ report_file' = [written |-> TRUE, content |-> validation_report]
    /\ p4Pc' = "export"
    /\ UNCHANGED <<entities, validation_report, output_files, csv_rows, summary, p4IoError>>
    /\ Phase4Frame

\* save_report cannot write its file: the exception leaves run().
SaveReportFails ==
    /\ p4Pc = "report"
    /\ p4IoError' = TRUE
    /\ p4Pc' = "raised"
    /\ UNCHANGED <<entities, validation_report, report_file, output_files, csv_rows, summary>>
    /\ Phase4Frame

\* Step 4.2: csv_writer.write_all writes the four tables, a row per entity.
WriteAll ==
    /\ p4Pc = "export"
    /\ output_files' = TableNames
    /\ csv_rows' = [i \in 1..Len(TableNames) |-> Len(entities[TableNames[i]])]
    /\ p4Pc' = "summary"
    /\ UNCHANGED <<entities, validation_report, report_file, summary, p4IoError>>
    /\ Phase4Frame

\* write_all cannot write one of the files: the tables before it are
\* written, the exception leaves run().
WriteAllFails ==
    /\ p4Pc = "export"
    /\ \E k \in 0..(Len(TableNames) - 1) :
          /\ output_files' = SubSeq(TableNames, 1, k)
          /\ csv_rows' = [i \in 1..k |-> Len(entities[TableNames[i]])]
    /\ p4IoError' = TRUE
    /\ p4Pc' = "raised"
    /\ UNCHANGED <<entities, validation_report, report_file, summary>>
    /\ Phase4Frame

\* _generate_summary and the return of run().
GenerateSummary ==
    /\ p4Pc = "summary"
    /\ summary' = [written |-> TRUE,
                   validation_passed |-> validation_report.passed,
                   error_count |-> Len(validation_report.errors)]
    /\ p4Pc' = "done"
    /\ UNCHANGED <<entities, validation_report, report_file, output_files, csv_rows, p4IoError>>
    /\ Phase4Frame

\* _generate_summary cannot write processing_summary.json.
GenerateSummaryFails ==
    /\ p4Pc = "summary"
    /\ p4IoError' = TRUE
    /\ p4Pc' = "raised"
    /\ UNCHANGED <<entities, validation_report, report_file, output_files, csv_rows, summary>>
    /\ Phase4Frame

NextPhase4 ==
    \/ ValidateAll
    \/ SaveReport
    \/ SaveReportFails
    \/ WriteAll
    \/ WriteAllFails
    \/ GenerateSummary
    \/ GenerateSummaryFails

(***************************************************************************)
(* C20: validation errors do not stop the pipeline.                        *)
(***************************************************************************)

ErrorKinds(report) == {report.errors[i][1] : i \in 1..Len(report.errors)}

Phase4Completed ==
    /\ report_file.written
    /\ report_file.content = ValidationReport(entities)
    /\ output_files = TableNames
    /\ \A i \in 1..Len(TableNames) : csv_rows[i] = Len(entities[TableNames[i]])
    /\ summary.written
    /\ summary.error_count = Len(ValidationReport(entities).errors)

\* C20: whatever errors the validation report holds, phase 4 is left by an
\* exception only when a file could not be written; the run comes to its
\* end, and at the end of a run without such a failure the report with all
\* errors is saved, all four tables are exported with every row, and the
\* summary carries the error count.
C20_ErrorsDoNotStopThePipeline ==
    /\ [](p4Pc = "raised" => p4IoError)
    /\ [](p4Pc = "done" => Phase4Completed)
    /\ <>(p4Pc \in {"done", "raised"})

\* A run that ended after a report with a missing field, a malformed date,
\* a dangling reference and a circular reference.
C20_Witness ==
    /\ p4Pc = "done"
    /\ ErrorKinds(validation_report) = {"missing_field", "invalid_date", "dangling", "circular"}
    /\ ~validation_report.passed
    /\ output_files = TableNames
    /\ csv_rows = <<1, 2, 1, 0>>

(***************************************************************************)
(* TextChunker (processors/text_chunker.py), as WikipediaExtractor builds  *)
(* it: max_chunk_size = 2000, min_chunk_size = 500, overlap = 100.         *)
(* An article is the sequence of its paragraphs, each with the heading     *)
(* line "== name ==" that stands before it ("" when there is none).  A     *)
(* paragraph is known by its length, the keywords and year tokens in it,   *)
(* and tail: the length _get_overlap returns for a chunk that ends with it.*)
(***************************************************************************)

max_chunk_size == 2000
min_chunk_size == 500
overlap == 100

\* The most paragraphs an article has.
MaxParagraphs == 4

Note == [len |-> 40, kw |-> {}, years |-> 0, tail |-> 100]
Life == [len |-> 700, kw |-> {"born", "school"}, years |-> 60, tail |-> 30]
Wall == [len |-> 2600, kw |-> {"degree"}, years |-> 0, tail |-> 100]

ParagraphKinds == {Note, Life, Wall}

Headings == {"", "Career", "Awards"}

Articles ==
    UNION {[1..n -> [para : ParagraphKinds, heading : Headings]] : n \in 1..MaxParagraphs}

\* The values prioritize_chunks is given for max_chunks; 5 is the default
\* and the value of the fetcher's call.
MaxChunksValues == {1, 2, 5}

RECURSIVE TextLen(_)
\* len of the paragraphs joined by "\n\n".
TextLen(paras) ==
    IF paras = <<>> THEN 0
    ELSE Head(paras).len + (IF Len(paras) > 1 THEN 2 ELSE 0) + TextLen(Tail(paras))

RECURSIVE AllKeywords(_)
AllKeywords(paras) ==
    IF paras = <<>> THEN {} ELSE Head(paras).kw \cup AllKeywords(Tail(paras))

RECURSIVE AllYears(_)
AllYears(paras) ==
    IF paras = <<>> THEN 0 ELSE Head(paras).years + AllYears(Tail(paras))

\* len("\n== name ==\n"); both names have six letters.
HeadingLen(name) == 8 + 6

RECURSIVE RawLen(_)
\* len(text) of the whole article.
RawLen(text) ==
    IF text = <<>> THEN 0
    ELSE Head(text).para.len
         + (IF Head(text).heading # "" THEN HeadingLen(Head(text).heading) ELSE 2)
         + RawLen(Tail(text))

RECURSIVE GroupParagraphs(_, _)
\* The text between two matches of section_pattern, under the name of the
\* heading before it; the text before the first match is the introduction.
GroupParagraphs(text, acc) ==
    IF text = <<>> THEN acc
    ELSE LET it == Head(text)
         IN  IF it.heading # "" \/ acc = <<>>
             THEN GroupParagraphs(Tail(text),
                      Append(acc, [name |-> IF it.heading = "" THEN "Introduction" ELSE it.heading,
                                   paras |-> <<it.para>>,
                                   is_intro |-> it.heading = ""]))
             ELSE GroupParagraphs(Tail(text),
                      [acc EXCEPT ![Len(acc)].paras = Append(@, it.para)])

\* _parse_sections: sections of 50 characters or fewer are skipped, the
\* introduction is kept whenever it has text.
ParseSections(text) ==
    SelectSeq(GroupParagraphs(text, <<>>),
              LAMBDA s : s.is_intro \/ TextLen(s.paras) > 50)

EmptyChunkText == [len |-> 0, kw |-> {}, years |-> 0, tail |-> 0]

\* _get_overlap of the current chunk: the whole text when it is no longer
\* than overlap, else the end of it from the last sentence boundary.
GetOverlap(cur) == IF cur.len <= overlap THEN cur.len ELSE cur.tail

\* current_chunk += "\n\n" + para if current_chunk else para
AddParagraph(cur, para) ==
    [len |-> IF cur.len > 0 THEN cur.len + 2 + para.len ELSE para.len,
     kw |-> cur.kw \cup para.kw,
     years |-> cur.years + para.years,
     tail |-> para.tail]

\* current_chunk = self._get_overlap(current_chunk) + "\n\n" + para
StartWithOverlap(cur, para) ==
    [len |-> GetOverlap(cur) + 2 + para.len,
     kw |-> para.kw,
     years |-> para.years,
     tail |-> para.tail]

MakeChunk(cur, section_name, is_intro) ==
    [len |-> cur.len, section |-> section_name, is_intro |-> is_intro,
     kw |-> cur.kw, years |-> cur.years]

RECURSIVE ChunkLoop(_, _, _, _, _)
\* The loop of _chunk_by_paragraphs and the final chunk after it.
ChunkLoop(paras, cur, chunks, section_name, is_intro) ==
    IF paras = <<>>
    THEN IF cur.len > 0
         THEN Append(chunks, MakeChunk(cur, section_name, is_intro))
         ELSE chunks
    ELSE LET para == Head(paras)
         IN  IF cur.len + para.len + 2 > max_chunk_size
             THEN IF cur.len > min_chunk_size
                  THEN ChunkLoop(Tail(paras), StartWithOverlap(cur, para),
                                 Append(chunks, MakeChunk(cur, section_name, is_intro)),
                                 section_name, is_intro)
                  ELSE ChunkLoop(Tail(paras), AddParagraph(cur, para), chunks,
                                 section_name, is_intro)
             ELSE ChunkLoop(Tail(paras), AddParagraph(cur, para), chunks,
                            section_name, is_intro)

ChunkByParagraphs(paras, section_name, is_intro) ==
    ChunkLoop(paras, EmptyChunkText, <<>>, section_name, is_intro)

WholeText(paras) ==
    [len |-> TextLen(paras), kw |-> AllKeywords(paras), years |-> AllYears(paras), tail |-> 0]

RECURSIVE ChunkSections(_)
ChunkSections(sections) ==
    IF sections = <<>> THEN <<>>
    ELSE LET s == Head(sections)
         IN  (IF TextLen(s.paras) <= max_chunk_size
              THEN <<MakeChunk(WholeText(s.paras), s.name, s.is_intro)>>
              ELSE ChunkByParagraphs(s.paras, s.name, s.is_intro))
             \o ChunkSections(Tail(sections))

\* chunk_text(text, person_name)
ChunkTextOf(text) ==
    IF RawLen(text) < max_chunk_size
    THEN <<[len |-> RawLen(text), section |-> "Full Article", is_intro |-> TRUE,
            kw |-> AllKeywords([i \in 1..Len(text) |-> text[i].para]),
            years |-> AllYears([i \in 1..Len(text) |-> text[i].para])]>>
    ELSE ChunkSections(ParseSections(text))

\* The section names that hold one of bio_sections.
BioSections == {"Career"}

\* _score_chunk
ScoreChunk(chunk) ==
    (IF chunk.is_intro THEN 100 ELSE 0)
    + (IF chunk.section \in BioSections THEN 50 ELSE 0)
    + 5 * Cardinality(chunk.kw)
    + 2 * chunk.years
    + (IF chunk.len > 500 THEN 10 ELSE 0)

RECURSIVE InsertByScore(_, _)
InsertByScore(chunk, sorted) ==
    IF sorted = <<>> THEN <<chunk>>
    ELSE IF ScoreChunk(Head(sorted)) <= ScoreChunk(chunk)
    THEN <<chunk>> \o sorted
    ELSE <<Head(sorted)>> \o InsertByScore(chunk, Tail(sorted))

RECURSIVE SortByScore(_)
\* scored_chunks.sort(reverse=True, key=score): descending and stable.
SortByScore(chunks) ==
    IF chunks = <<>> THEN <<>>
    ELSE InsertByScore(Head(chunks), SortByScore(Tail(chunks)))

PlaceIntroLast(result, chunk) == Append(result, chunk)

\* result.insert(0, chunk) for an introduction chunk, result.append(chunk)
\* for any other.
PlaceChunk(result, chunk) ==
    IF chunk.is_intro THEN <<chunk>> \o result ELSE Append(result, chunk)

RECURSIVE PlaceAll(_, _)
PlaceAll(sorted, result) ==
    IF sorted = <<>> THEN result
    ELSE PlaceAll(Tail(sorted), PlaceChunk(result, Head(sorted)))

\* prioritize_chunks(chunks, max_chunks)
PrioritizeChunksOf(chunks, k) ==
    IF Len(chunks) <= k THEN chunks
    ELSE SubSeq(PlaceAll(SortByScore(chunks), <<>>), 1, k)

InitChunkerIdle ==
    /\ tcPc = "idle"
    /\ tcText = <<>>
    /\ tcChunks = <<>>
    /\ tcMaxChunks = 0
    /\ tcResult = <<>>

\* chunker.chunk_text(wiki_data['extract'], name)
ChunkText ==
    /\ tcPc = "idle"
    /\ \E text \in Articles :
        /\ tcText' = text
        /\ tcChunks' = ChunkTextOf(text)
    /\ tcPc' = "chunked"
    /\ UNCHANGED <<tcMaxChunks, tcResult>>
    /\ ChunkerFrame

\* chunker.prioritize_chunks(chunks, max_chunks)
PrioritizeChunks ==
    /\ tcPc = "chunked"
    /\ \E k \in MaxChunksValues :
        /\ tcMaxChunks' = k
        /\ tcResult' = PrioritizeChunksOf(tcChunks, k)
    /\ tcPc' = "prioritized"
    /\ UNCHANGED <<tcText, tcChunks>>
    /\ ChunkerFrame

\* fetch_person_data returns; the next person's article is chunked afresh.
NextArticle ==
    /\ tcPc = "prioritized"
    /\ tcPc' = "idle"
    /\ tcText' = <<>>
    /\ tcChunks' = <<>>
    /\ tcMaxChunks' = 0
    /\ tcResult' = <<>>
    /\ ChunkerFrame

NextChunker ==
    \/ ChunkText
    \/ PrioritizeChunks
    \/ NextArticle

SomeIntroChunk == \E i \in 1..Len(tcChunks) : tcChunks[i].is_intro

Prioritized == tcPc = "prioritized" /\ Len(tcChunks) > tcMaxChunks

C25_SplitChunksWithinLimits ==
    tcPc # "idle" /\ RawLen(tcText) >= max_chunk_size =>
        \A s \in {ParseSections(tcText)[i] : i \in 1..Len(ParseSections(tcText))} :
            TextLen(s.paras) > max_chunk_size =>
                \A c \in {ChunkByParagraphs(s.paras, s.name, s.is_intro)[i] :
                              i \in 1..Len(ChunkByParagraphs(s.paras, s.name, s.is_intro))} :
                    /\ c.len >= min_chunk_size
                    /\ c.len <= max_chunk_size

(***************************************************************************)
(* OrganizationHierarchyAnalyzer (processors/organization_hierarchy.py).   *)
(* Organization names are positive integers, a parent is a name or         *)
(* NoParent (None).  self.cache and the cache file are dicts from          *)
(* f"parent_{org_name}" to a parent.                                       *)
(***************************************************************************)

\* The most organizations analyze_batch_hierarchies is given.
MaxHierarchyOrgs == 2

\* parent = None
NoParent == 0

HOrgNames == 1..MaxHierarchyOrgs

\* The parent names the collaborator answers with.
ParentNames == {9}

\* The keys of the dict organizations, in the order of organizations.keys().
OrgKeyOrders ==
    {s \in UNION {[1..n -> HOrgNames] : n \in 0..MaxHierarchyOrgs} :
        \A i, j \in 1..Len(s) : s[i] = s[j] => i = j}

\* What the block under "try" meets: the request raises ("error"),
\* json.loads raises on the text ("garbage"), or the text is a JSON object
\* with hasParent and parentOrganization (null and "" are NoParent).
HierarchyReplies ==
    {[kind |-> "error", hasParent |-> FALSE, parentOrganization |-> NoParent],
     [kind |-> "garbage", hasParent |-> FALSE, parentOrganization |-> NoParent]}
    \cup [kind : {"json"}, hasParent : BOOLEAN, parentOrganization : {NoParent} \cup ParentNames]

NoReply == [kind |-> "none", hasParent |-> FALSE, parentOrganization |-> NoParent]

\* cache_key = f"parent_{org_name}"
ParentKey(org_name) == <<"parent", org_name>>

CallFailed(reply) == reply.kind \in {"error", "garbage"}

\* The value the try block computes, or the None of the except block.
ParentOfReply(reply) ==
    IF CallFailed(reply) THEN NoParent
    ELSE IF reply.hasParent /\ reply.parentOrganization # NoParent
    THEN reply.parentOrganization
    ELSE NoParent

RecordParentAlone(result, org_name, parent) ==
    [k \in {org_name} |-> parent]

\* hHierarchies[org_name] = parent
RecordParent(result, org_name, parent) ==
    DictPut(result, [k \in {org_name} |-> parent])

CacheAfterSuccessOnly(old_cache, org_name, reply) ==
    IF CallFailed(reply) THEN old_cache
    ELSE DictPut(old_cache, [k \in {ParentKey(org_name)} |-> ParentOfReply(reply)])

\* self.cache[cache_key] = parent in the try block, = None in the except
\* block.
CacheAfterCall(old_cache, org_name, reply) ==
    DictPut(old_cache, [k \in {ParentKey(org_name)} |-> ParentOfReply(reply)])

\* _save_cache: the file takes the whole cache, or the write fails and
\* only a log line is written.
SaveHierarchyCache(new_cache, file, saved) == IF saved THEN new_cache ELSE file

InitHierarchyIdle ==
    /\ hPc = "idle"
    /\ hOrgs = <<>>
    /\ hIdx = 1
    /\ hHierarchies = EmptyDict
    /\ hCache = EmptyDict
    /\ hFile = EmptyDict
    /\ hHow = [o \in HOrgNames |-> [via |-> "none", reply |-> NoReply, attempts |-> 0]]
    /\ hCacheAtStart = EmptyDict
    /\ hLastCall = [o \in HOrgNames |-> "none"]

\* analyze_batch_hierarchies is called.
AnalyzeBatchHierarchies ==
    /\ hPc \in {"idle", "done"}
    /\ \E orgs \in OrgKeyOrders : hOrgs' = orgs
    /\ hPc' = "loop"
    /\ hIdx' = 1
    /\ hHierarchies' = EmptyDict
    /\ hHow' = [o \in HOrgNames |-> [via |-> "none", reply |-> NoReply, attempts |-> 0]]
    /\ hCacheAtStart' = hCache
    /\ UNCHANGED <<hCache, hFile, hLastCall>>
    /\ HierarchyFrame

\* _analyze_organization_parent returns the cached value.
AnalyzeParentCached ==
    /\ hPc = "loop"
    /\ hIdx <= Len(hOrgs)
    /\ LET org_name == hOrgs[hIdx]
       IN  /\ ParentKey(org_name) \in DOMAIN hCache
           /\ hHierarchies' = RecordParent(hHierarchies, org_name, hCache[ParentKey(org_name)])
           /\ hHow' = [hHow EXCEPT ![org_name].via = "cache"]
    /\ hIdx' = hIdx + 1
    /\ UNCHANGED <<hPc, hOrgs, hCache, hFile, hCacheAtStart, hLastCall>>
    /\ HierarchyFrame

\* _analyze_organization_parent issues the generation call, stores the
\* parent or the None of a failure under the key and saves the cache.
AnalyzeParentWithCall ==
    /\ hPc = "loop"
    /\ hIdx <= Len(hOrgs)
    /\ LET org_name == hOrgs[hIdx]
       IN  /\ ParentKey(org_name) \notin DOMAIN hCache
           /\ \E reply \in HierarchyReplies, saved \in BOOLEAN :
               LET parent == ParentOfReply(reply)
                   new_cache == CacheAfterCall(hCache, org_name, reply)
               IN  /\ hCache' = new_cache
                   /\ hFile' = SaveHierarchyCache(new_cache, hFile, saved)
                   /\ hHierarchies' = RecordParent(hHierarchies, org_name, parent)
                   /\ hHow' = [hHow EXCEPT ![org_name] =
                                   [via |-> "call", reply |-> reply, attempts |-> @.attempts + 1]]
                   /\ hLastCall' = [hLastCall EXCEPT ![org_name] =
                                        IF CallFailed(reply) THEN "failed" ELSE "ok"]
    /\ hIdx' = hIdx + 1
    /\ UNCHANGED <<hPc, hOrgs, hCacheAtStart>>
    /\ HierarchyFrame

\* The loop is over: return hierarchies.
BatchReturns ==
    /\ hPc = "loop"
    /\ hIdx > Len(hOrgs)
    /\ hPc' = "done"
    /\ UNCHANGED <<hOrgs, hIdx, hHierarchies, hCache, hFile, hHow, hCacheAtStart, hLastCall>>
    /\ HierarchyFrame

\* A later run: a new analyzer loads the cache file.
NewAnalyzer ==
    /\ hPc = "done"
    /\ hPc' = "idle"
    /\ hCache' = hFile
    /\ hOrgs' = <<>>
    /\ hIdx' = 1
    /\ hHierarchies' = EmptyDict
    /\ hHow' = [o \in HOrgNames |-> [via |-> "none", reply |-> NoReply, attempts |-> 0]]
    /\ hCacheAtStart' = hFile
    /\ UNCHANGED <<hFile, hLastCall>>
    /\ HierarchyFrame

NextHierarchy ==
    \/ AnalyzeBatchHierarchies
    \/ AnalyzeParentCached
    \/ AnalyzeParentWithCall
    \/ BatchReturns
    \/ NewAnalyzer

HOrgSet == {hOrgs[i] : i \in 1..Len(hOrgs)}

\* C22: an organization whose generation call failed with a transport
\* error is given up only after the call has been attempted again.
C22_TransportFailureRetried ==
    \A o \in HOrgNames :
        hHow[o].via = "call" /\ hHow[o].reply.kind = "error" => hHow[o].attempts >= 2

\* What one organization resolves to on its own: the cached parent the
\* batch started with, else the parent of its own reply.
ResolvedAlone(o) ==
    IF ParentKey(o) \in DOMAIN hCacheAtStart
    THEN hCacheAtStart[ParentKey(o)]
    ELSE ParentOfReply(hHow[o].reply)

\* C27: the returned map has one entry for each organization given and no
\* other; an organization whose call failed or could not be parsed has
\* NoParent, and every organization has the parent its own cache entry or
\* its own reply gives it, whatever happened to the others.
C27_EachOrganizationAlone ==
    hPc = "done" =>
        /\ DOMAIN hHierarchies = HOrgSet
        /\ \A o \in HOrgSet :
            /\ hHierarchies[o] = ResolvedAlone(o)
            /\ hHow[o].via = "call" /\ CallFailed(hHow[o].reply) => hHierarchies[o] = NoParent

\* A batch of two organizations: the call of one failed, the other was
\* given a parent.
C27_Witness ==
    /\ hPc = "done"
    /\ \E o, p \in HOrgSet :
        /\ hHow[o].via = "call" /\ CallFailed(hHow[o].reply)
        /\ hHierarchies[p] # NoParent

CallIssuedFor(o) == hHow'[o].attempts > hHow[o].attempts

SchemaIdsNone(table) == {}
SchemaIds(table) == {table[i].id : i \in 1..Len(table)} \ {Null}

\* The two loops of _validate_references: per person the organization and
\* the party, per organization the sector and the parent.
SchemaRefErrors(ps, orgs, pts, secs) ==
    LET org_ids == SchemaIds(orgs)
        party_id_set == SchemaIds(pts)
        sector_id_set == SchemaIds(secs)
        flag(bad, kind, e) == IF bad THEN <<[kind |-> kind, id |-> e.id]>> ELSE <<>>
        P[i \in 0..Len(ps)] ==
            IF i = 0 THEN <<>>
            ELSE P[i - 1]
                 \o flag(ps[i].organization # Null /\ ps[i].organization \notin org_ids,
                         "invalid organization", ps[i])
                 \o flag(ps[i].party # Null /\ ps[i].party \notin party_id_set,
                         "invalid party", ps[i])
        O[i \in 0..Len(orgs)] ==
            IF i = 0 THEN <<>>
            ELSE O[i - 1]
                 \o flag(orgs[i].sector # Null /\ orgs[i].sector \notin sector_id_set,
                         "invalid sector", orgs[i])
                 \o flag(orgs[i].parentOrganization # Null
                             /\ orgs[i].parentOrganization \notin org_ids,
                         "invalid parent", orgs[i])
    IN  P[Len(ps)] \o O[Len(orgs)]

RECURSIVE SchemaChainLoops(_, _, _)
\* The while loop of _check_circular_org_references: org_map holds, for an
\* id, the last organization that carries it.
SchemaChainLoops(orgs, current, visited) ==
    IF current = Null THEN FALSE
    ELSE IF current \in visited THEN TRUE
    ELSE LET hits == {i \in 1..Len(orgs) : orgs[i].id = current}
         IN  IF hits = {} THEN FALSE
             ELSE SchemaChainLoops(orgs,
                      orgs[CHOOSE i \in hits : \A j \in hits : j <= i].parentOrganization,
                      visited \cup {current})

\* _check_circular_org_references
SchemaCircularErrors(orgs) ==
    LET looping(o) == o.id # Null /\ SchemaChainLoops(orgs, o.id, {})
        found == SelectSeq(orgs, looping)
    IN  [i \in 1..Len(found) |-> [kind |-> "circular", id |-> found[i].id]]

\* The most entities of a set the two validations are compared on.
MaxCompared == 2

\* The IDs a parent pointer is altered to: an ID of the set, an ID no set
\* has had, an ID an earlier set of the same mapper had, or None.
AlteredParents == {Null} \cup {FormatId("O", k) : k \in 1..(MaxCompared + 1)}

InitCompareIdle == altered = FALSE

\* A new mapper and the caller's first entity set.
InitCompare ==
    /\ altered = FALSE
    /\ mPc = "assign"
    /\ \E n \in 0..MaxCompared : \E m \in 0..(MaxCompared - n) :
          /\ inOrgs \in MapperOrgDicts(n)
          /\ inPeople \in MapperPeople(m)
    /\ \E full \in BOOLEAN :
          /\ inParties = IF full THEN {PartyName(1)} ELSE {}
          /\ inSectors = IF full THEN {SectorName(1)} ELSE {}
    /\ organization_ids = EmptyDict
    /\ party_ids = EmptyDict
    /\ sector_ids = EmptyDict
    /\ id_to_organization = EmptyDict
    /\ id_to_party = EmptyDict
    /\ id_to_sector = EmptyDict
    /\ people = <<>>
    /\ organizations = <<>>
    /\ parties = <<>>
    /\ sectors = <<>>
    /\ errors = <<>>
    /\ vOrg = 0
    /\ vCurrent = Null
    /\ vVisited = {}
    /\ vIter = 0

\* The same mapper is given a further entity set.
AssignIdsToNextSet ==
    /\ AssignIdsAgain
    /\ DOMAIN inOrgs' \subseteq MapperOrgNames(MaxCompared)

\* Between map_relationships and validate_references the parent pointer of
\* one organization is set to another value.
AlterParent ==
    /\ mPc = "validate"
    /\ ~altered
    /\ \E i \in 1..Len(organizations), p \in AlteredParents :
          /\ organizations[i].parentOrganization # p
          /\ organizations' = [organizations EXCEPT ![i].parentOrganization = p]
    /\ altered' = TRUE
    /\ UNCHANGED <<mPc, inPeople, inOrgs, inParties, inSectors,
                   organization_ids, party_ids, sector_ids,
                   id_to_organization, id_to_party, id_to_sector,
                   people, parties, sectors, errors, vOrg, vCurrent, vVisited, vIter>>
    /\ UNCHANGED <<idVars, dedupVars, normVars, enhVars, wikiVars, limiterVars, retryVars, phase4Vars, chunkerVars, hierarchyVars>>

NextCompare ==
    \/ AssignAllIds
    \/ MapRelationships
    \/ AlterParent
    \/ ValidateReferences
    \/ WalkEnd
    \/ WalkCycleFound
    \/ WalkFollowParent
    \/ AssignIdsToNextSet

\* The (kind, entity) pairs of the dangling references of an error list and
\* the organizations it reports as circular.
DanglingPairs(errs) ==
    {<<errs[i].kind, errs[i].id>> : i \in {j \in 1..Len(errs) : errs[j].kind # "circular"}}

CircularOrgs(errs) ==
    {errs[i].id : i \in {j \in 1..Len(errs) : errs[j].kind = "circular"}}

SchemaErrors ==
    SchemaRefErrors(people, organizations, parties, sectors)
    \o SchemaCircularErrors(organizations)

\* The ID tables of the mapper hold the IDs of this entity set and no other.
TablesMatchSet ==
    /\ DOMAIN id_to_organization = IdsOf(organizations)
    /\ DOMAIN id_to_party = IdsOf(parties)
    /\ DOMAIN id_to_sector = IdsOf(sectors)

InitSpecIds == InitIds /\ InitMapperIdle /\ InitDedupIdle /\ InitNormIdle /\ InitEnhanceIdle /\ InitWikiIdle /\ InitLimiterIdle /\ InitRetryIdle /\ InitPhase4Idle /\ InitChunkerIdle /\ InitHierarchyIdle /\ InitCompareIdle

SpecIds == InitSpecIds /\ [][NextIds]_vars

\* One use of a RelationshipMapper: assign_all_ids, map_relationships,
\* validate_references.
InitSpecMapper == InitIdsIdle /\ InitMapper /\ InitDedupIdle /\ InitNormIdle /\ InitEnhanceIdle /\ InitWikiIdle /\ InitLimiterIdle /\ InitRetryIdle /\ InitPhase4Idle /\ InitChunkerIdle /\ InitHierarchyIdle /\ InitCompareIdle

SpecMapper == InitSpecMapper /\ [][NextMapper]_vars

\* One call of deduplicate_organizations on a fresh deduplicator.
InitSpecDedup == InitIdsIdle /\ InitMapperIdle /\ InitDedup /\ InitNormIdle /\ InitEnhanceIdle /\ InitWikiIdle /\ InitLimiterIdle /\ InitRetryIdle /\ InitPhase4Idle /\ InitChunkerIdle /\ InitHierarchyIdle /\ InitCompareIdle

SpecDedup == InitSpecDedup /\ [][NextDedup]_vars

\* Phase 3 of a pipeline run, from the harvest of the organizations to the
\* moment map_relationships begins, on a first run (no deduplication cache).
InitSpecNorm == InitIdsIdle /\ InitMapperIdle /\ InitDedupIdle /\ InitNorm /\ InitEnhanceIdle /\ InitWikiIdle /\ InitLimiterIdle /\ InitRetryIdle /\ InitPhase4Idle /\ InitChunkerIdle /\ InitHierarchyIdle /\ InitCompareIdle

SpecNorm == InitSpecNorm /\ [][NextNorm]_vars

\* Phase 2 of pipeline runs on one CSV: a first run and the runs that follow
\* on the cache file the runs before left.
InitSpecEnhance == InitIdsIdle /\ InitMapperIdle /\ InitDedupIdle /\ InitNormIdle /\ InitEnhance /\ InitWikiIdle /\ InitLimiterIdle /\ InitRetryIdle /\ InitPhase4Idle /\ InitChunkerIdle /\ InitHierarchyIdle /\ InitCompareIdle

SpecEnhance == InitSpecEnhance /\ [][NextEnhance]_vars

\* Calls of fetch_person_data on one cache file, over restarts of the process.
InitSpecWiki == InitIdsIdle /\ InitMapperIdle /\ InitDedupIdle /\ InitNormIdle /\ InitEnhanceIdle /\ InitWiki /\ InitLimiterIdle /\ InitRetryIdle /\ InitPhase4Idle /\ InitChunkerIdle /\ InitHierarchyIdle /\ InitCompareIdle

SpecWiki == InitSpecWiki /\ [][NextWiki]_vars

\* The rate limiter shared by concurrent callers.
InitSpecLimiter == InitIdsIdle /\ InitMapperIdle /\ InitDedupIdle /\ InitNormIdle /\ InitEnhanceIdle /\ InitWikiIdle /\ InitLimiter /\ InitRetryIdle /\ InitPhase4Idle /\ InitChunkerIdle /\ InitHierarchyIdle /\ InitCompareIdle

SpecLimiter == InitSpecLimiter /\ [][NextLimiter]_vars

\* The retry wrapper around one operation.
InitSpecRetry == InitIdsIdle /\ InitMapperIdle /\ InitDedupIdle /\ InitNormIdle /\ InitEnhanceIdle /\ InitWikiIdle /\ InitLimiterIdle /\ InitRetry /\ InitPhase4Idle /\ InitChunkerIdle /\ InitHierarchyIdle /\ InitCompareIdle

SpecRetry == InitSpecRetry /\ [][NextRetry]_vars

\* One mapper used for one entity set after another.
InitSpecRemap == InitIdsIdle /\ InitMapper /\ InitDedupIdle /\ InitNormIdle /\ InitEnhanceIdle /\ InitWikiIdle /\ InitLimiterIdle /\ InitRetryIdle /\ InitPhase4Idle /\ InitChunkerIdle /\ InitHierarchyIdle /\ InitCompareIdle

SpecRemap == InitSpecRemap /\ [][NextRemap]_vars

\* Phase 4 of one run; the run is sequential, so a step that can be taken is taken.
InitSpecPhase4 == InitIdsIdle /\ InitMapperIdle /\ InitDedupIdle /\ InitNormIdle /\ InitEnhanceIdle /\ InitWikiIdle /\ InitLimiterIdle /\ InitRetryIdle /\ InitPhase4 /\ InitChunkerIdle /\ InitHierarchyIdle /\ InitCompareIdle

SpecPhase4 == InitSpecPhase4 /\ [][NextPhase4]_vars /\ WF_vars(NextPhase4)

\* The chunker on one article after another.
InitSpecChunker == InitIdsIdle /\ InitMapperIdle /\ InitDedupIdle /\ InitNormIdle /\ InitEnhanceIdle /\ InitWikiIdle /\ InitLimiterIdle /\ InitRetryIdle /\ InitPhase4Idle /\ InitChunkerIdle /\ InitHierarchyIdle /\ InitCompareIdle

SpecChunker == InitSpecChunker /\ [][NextChunker]_vars

\* The hierarchy analyzer over batches and runs.
InitSpecHierarchy == InitIdsIdle /\ InitMapperIdle /\ InitDedupIdle /\ InitNormIdle /\ InitEnhanceIdle /\ InitWikiIdle /\ InitLimiterIdle /\ InitRetryIdle /\ InitPhase4Idle /\ InitChunkerIdle /\ InitHierarchyIdle /\ InitCompareIdle

SpecHierarchy == InitSpecHierarchy /\ [][NextHierarchy]_vars

\* One mapper over one entity set after another, with an altered parent pointer, next to the schema validator.
InitSpecCompare == InitIdsIdle /\ InitDedupIdle /\ InitNormIdle /\ InitEnhanceIdle /\ InitWikiIdle /\ InitLimiterIdle /\ InitRetryIdle /\ InitPhase4Idle /\ InitChunkerIdle /\ InitHierarchyIdle /\ InitCompare

SpecCompare == InitSpecCompare /\ [][NextCompare]_vars

====
